---- MODULE Spec2Model ----
(***************************************************************************)
(* The batch evaluation engine of eval-kit: BatchEvaluator.evaluate and    *)
(* processRow (src/src/batch/batch-evaluator.ts), the ConcurrencyManager   *)
(* gate (concurrency-manager.ts), the ProgressTracker, the StateManager    *)
(* and the StreamingExporter, as one state machine.                        *)
(*                                                                         *)
(* JavaScript runs one synchronous block at a time: a block between two    *)
(* awaits is one action.  The promise continuations (microtasks) started   *)
(* by one event run to the end before the next timer or I/O event is       *)
(* taken, so an event and the continuations it starts are one action too.  *)
(***************************************************************************)
EXTENDS Integers, Sequences, FiniteSets, TLC

\* ------------------------------------------------------------------ bounds
NumRows == 4            \* most rows of a parsed input (allRows.length)
Concurrency == 1        \* config.concurrency of the configurations explored
MaxRetriesCfg == 1      \* largest retryConfig.maxRetries explored
MaxRetriesBackoff == 2  \* largest maxRetries of the retry configurations
MaxStartIndex == 1      \* largest inputConfig.startIndex explored
ResumeSpan == 2         \* a resume snapshot holds rows below this index
RateCap == 1            \* maxRequestsPerMinute / maxRequestsPerHour when set
NumEvaluators == 2      \* evaluators given to the BatchEvaluator
NumCallers == 4         \* direct callers of ConcurrencyManager.run
GateConcurrency == 2    \* largest maxConcurrency of the gate configurations
SinkConcurrency == 2    \* config.concurrency of the streaming configurations
MaxTicks == 1           \* free passages of time (beyond timer deadlines)
TickStep == 60000       \* length of one free passage of time, ms
Epoch == 4000000        \* Date.now() when evaluate is called, ms
LongEmitInterval == 2000  \* a progressInterval longer than the retry delay
MaxSaves == 2           \* most StateManager.save calls recorded
ShortTimeout == 500     \* a config.timeout whose message is not transient
LongTimeout == 4290     \* a config.timeout whose digits hold "429"

\* ------------------------------------------------------- program constants
MINUTE_WINDOW == 60000
HOUR_WINDOW == 3600000
MAX_TIMESTAMP_AGE == 3600000
RATE_BUFFER == 100
DefaultRetryDelay == 1000
DefaultEmitInterval == 1000

Rows == 0 .. (NumRows - 1)

Callers == 0 .. (NumCallers - 1)

VARIABLES
    config,               \* BatchEvaluatorConfig and inputConfig.startIndex
    epc,                  \* where evaluate is
    chunkLo,              \* startIndex + i of the chunk being awaited
    activeCount,          \* ConcurrencyManager.activeCount
    queue,                \* ConcurrencyManager.queue (parked callers, FIFO)
    requestTimestamps,    \* ConcurrencyManager.requestTimestamps
    now,                  \* Date.now()
    ticks,                \* free passages of time taken
    pc,                   \* where processRow(row, index) is, per index
    retryCount,           \* processRow's retryCount, per index
    wakeAt,               \* deadline of the row's pending setTimeout
    rlNow,                \* checkRateLimit's local `now`, per caller
    results,              \* BatchEvaluator.results
    processedRowIndices,  \* BatchEvaluator.processedRowIndices
    tracker,              \* ProgressTracker counters and lastEmitTime
    currentState,         \* StateManager.currentState
    sinkRows,             \* row indices accepted by the streaming sink
    file,                 \* the file at streamExport.destination
    csvHeaderWritten,     \* StreamingExporter.csvHeaderWritten
    isFirstResult,        \* StreamingExporter.isFirstResult
    writePrefix,          \* exportToCsv's header / exportToJson's prefix, per call
    requests,             \* exportToWebhook's requests and their outcomes, per call
    runPc,                \* where run(task) is, per direct caller of the gate
    microtasks,           \* the microtask queue: promise reactions, FIFO
    gateLog,              \* history: run calls, parkings, admissions, task ends
    finished,             \* outcomes of the attempt's evaluators, as they return
    lastError,            \* history: message of the row's last failed attempt
    delivered,            \* history: the events onProgress was called with
    autoSaveTimer,        \* StateManager.autoSaveTimer is set
    saves,                \* history: StateManager.save calls
    callAt,               \* when the attempt's evaluator calls were raced
    timedOut,             \* history: calls whose timeout won, and their ends
    called,               \* history: onResult promises fulfilled, per index
    attempts,             \* history: runEvaluators calls, per index
    retryEvents,          \* history: recordRetry calls, per index
    steps,                \* history: commit steps of the row's last attempt
    admittedAt            \* history: Date.now() of each gate admission

vars == << config, epc, chunkLo, activeCount, queue, requestTimestamps, now,
           ticks, pc, retryCount, wakeAt, rlNow, results, processedRowIndices,
           tracker, currentState, sinkRows, called, attempts, retryEvents,
           steps, admittedAt, file, csvHeaderWritten, isFirstResult,
           writePrefix, requests, runPc, microtasks, gateLog, finished,
           lastError, delivered, autoSaveTimer, saves, callAt, timedOut >>

fuseVars == << callAt, timedOut >>

saveVars == << autoSaveTimer, saves >>

gateVars == << runPc, microtasks, gateLog >>

sinkVars == << file, csvHeaderWritten, isFirstResult, writePrefix, requests >>

\* ---------------------------------------------------------------- helpers
Range(s) == { s[i] : i \in 1 .. Len(s) }

MinOf(S) == CHOOSE m \in S : \A x \in S : m <= x

\* Error messages are character sequences, so that the classifier's
\* substring tests are computed.
Msg429 == << "4", "2", "9" >>
MsgBad == << "b", "a", "d" >>
ErrorMessages == { Msg429, MsgBad }

\* More messages, for the configurations that probe the retry classifier.
MsgEmpty == << >>
MsgTIMEOUT == << "T", "I", "M", "E", "O", "U", "T" >>
MsgBAD == << "B", "A", "D" >>
MsgEconnreset == << "e", "c", "o", "n", "n", "r", "e", "s", "e", "t" >>
ProbeMessages == ErrorMessages \cup { MsgEmpty, MsgTIMEOUT, MsgBAD, MsgEconnreset }

ToLowerCase(s) ==
    LET low(c) == CASE c = "E" -> "e" [] c = "C" -> "c" [] c = "O" -> "o"
                    [] c = "N" -> "n" [] c = "R" -> "r" [] c = "S" -> "s"
                    [] c = "T" -> "t" [] c = "I" -> "i" [] c = "M" -> "m"
                    [] c = "D" -> "d" [] c = "U" -> "u" [] c = "F" -> "f"
                    [] c = "A" -> "a" [] c = "B" -> "b" [] c = "L" -> "l"
                    [] OTHER -> c
    IN [ i \in 1 .. Len(s) |-> low(s[i]) ]

Includes(s, pattern) ==
    \E i \in 1 .. (Len(s) - Len(pattern) + 1) :
        SubSeq(s, i, i + Len(pattern) - 1) = pattern

transientErrors ==
    << << "E", "C", "O", "N", "N", "R", "E", "S", "E", "T" >>,
       << "E", "T", "I", "M", "E", "D", "O", "U", "T" >>,
       << "E", "N", "O", "T", "F", "O", "U", "N", "D" >>,
       << "r", "a", "t", "e", " ", "l", "i", "m", "i", "t" >>,
       << "4", "2", "9" >>,
       << "5", "0", "3" >>,
       << "t", "i", "m", "e", "o", "u", "t" >> >>

\* A classifier that compares the default patterns case-sensitively.
isRetryableCaseSensitive(errorMessage) ==
    IF Len(config.retryOnErrors) > 0
    THEN \E i \in 1 .. Len(config.retryOnErrors) :
             Includes(errorMessage, config.retryOnErrors[i])
    ELSE \E i \in 1 .. Len(transientErrors) :
             Includes(errorMessage, transientErrors[i])

\* shouldRetry, lines 412-433: the classifier of error messages
isRetryable(errorMessage) ==
    IF Len(config.retryOnErrors) > 0
    THEN \E i \in 1 .. Len(config.retryOnErrors) :
             Includes(errorMessage, config.retryOnErrors[i])
    ELSE \E i \in 1 .. Len(transientErrors) :
             Includes(ToLowerCase(errorMessage), ToLowerCase(transientErrors[i]))

\* A retry test that is off by one: it lets retry number maxRetries + 1 through.
shouldRetryOffByOne(errorMessage, currentAttempts, maxRetries) ==
    IF currentAttempts > maxRetries THEN FALSE ELSE isRetryable(errorMessage)

\* BatchEvaluator.shouldRetry
shouldRetry(errorMessage, currentAttempts, maxRetries) ==
    IF currentAttempts >= maxRetries THEN FALSE ELSE isRetryable(errorMessage)

\* processRow's retry delay (retryCount already incremented); an
\* exponentialBackoff left unset is undefined, which is falsy
RetryDelay(rc) ==
    IF config.exponentialBackoff = "true"
    THEN config.retryDelay * (2 ^ (rc - 1))
    ELSE config.retryDelay

\* ------------------------------------------------------ ConcurrencyManager
\* waitForSlot: TRUE when the caller returns at once, FALSE when it parks
waitForSlot(active) == active < config.concurrency

recentRequests(ts, t, window) == SelectSeq(ts, LAMBDA x : t - x < window)

\* checkRateLimit, one window: the sleep it asks for, 0 when it asks for none
waitTime(ts, t, window, cap) ==
    LET recent == recentRequests(ts, t, window)
    IN  IF cap # 0 /\ Len(recent) >= cap
        THEN window - (t - MinOf(Range(recent))) + RATE_BUFFER
        ELSE 0

minuteWait(ts, t) ==
    IF config.rateLimit.set
    THEN waitTime(ts, t, MINUTE_WINDOW, config.rateLimit.maxRequestsPerMinute)
    ELSE 0

hourWait(ts, t) ==
    IF config.rateLimit.set
    THEN waitTime(ts, t, HOUR_WINDOW, config.rateLimit.maxRequestsPerHour)
    ELSE 0

\* checkRateLimit's last statement (t is the `now` read when it was entered)
keepLastHour(ts, t) ==
    IF config.rateLimit.set THEN recentRequests(ts, t, HOUR_WINDOW) ELSE ts

cleanupOldTimestamps(ts, t) ==
    IF ~config.rateLimit.set \/ Len(ts) = 0 THEN ts
    ELSE SelectSeq(ts, LAMBDA x : x >= t - MAX_TIMESTAMP_AGE)

\* run, lines 32-36: the admission of one caller at time t
admit(ts, t) == cleanupOldTimestamps(Append(ts, t), t)

RECURSIVE admitEach(_, _, _)
admitEach(n, ts, t) == IF n = 0 THEN ts ELSE admitEach(n - 1, admit(ts, t), t)

\* processQueue after a release: the queue left and the caller resumed
processQueue(active, q) ==
    IF active < config.concurrency /\ Len(q) > 0
    THEN [ queue |-> Tail(q), next |-> { Head(q) } ]
    ELSE [ queue |-> q, next |-> {} ]

\* --------------------------------------------------------- ProgressTracker
recordSuccess(t) ==
    [ t EXCEPT !.processedRows = @ + 1, !.successfulRows = @ + 1 ]

\* A failure that moves processedRows only.
recordFailureUncounted(t) == [ t EXCEPT !.processedRows = @ + 1 ]

recordFailure(t) ==
    [ t EXCEPT !.processedRows = @ + 1, !.failedRows = @ + 1 ]

\* A fast-forward that moves processedRows only.
skipRowsUncounted(t, count) == [ t EXCEPT !.processedRows = @ + count ]

\* skipRows
skipRows(t, count) ==
    [ t EXCEPT !.processedRows = @ + count, !.successfulRows = @ + count ]

\* maybeEmit's test
emitDue(t) == now - t.lastEmitTime >= config.progressInterval

\* maybeEmit after a delivered (or absent) callback
emitted(t, due) == [ t EXCEPT !.lastEmitTime = IF due THEN now ELSE @ ]

\* An emit that holds every event type to the interval.
emitRateLimited(log, type, r, t) ==
    IF config.onProgress = "none" \/ ~emitDue(t) THEN log
    ELSE Append(log, [ type |-> type, at |-> now, row |-> r,
                       processedRows |-> t.processedRows,
                       successfulRows |-> t.successfulRows,
                       failedRows |-> t.failedRows,
                       settled |-> config.onProgress # "async" ])

\* emit, lines 113-155: onProgress is called with the event; the promise of
\* an async callback is left to settle on its own
emit(log, type, r, t) ==
    IF config.onProgress = "none" THEN log
    ELSE Append(log, [ type |-> type, at |-> now, row |-> r,
                       processedRows |-> t.processedRows,
                       successfulRows |-> t.successfulRows,
                       failedRows |-> t.failedRows,
                       settled |-> config.onProgress # "async" ])

\* maybeEmit, lines 99-108
maybeEmit(log, r, t) == IF emitDue(t) THEN emit(log, "progress", r, t) ELSE log

\* emit: whether the onProgress call throws synchronously
onProgressThrows(emits) ==
    IF emits /\ config.onProgress = "throws" THEN BOOLEAN ELSE { FALSE }

getCurrentProgress(t) ==
    [ processedRows |-> t.processedRows, successfulRows |-> t.successfulRows,
      failedRows |-> t.failedRows ]

\* ------------------------------------------------------------ StateManager
\* BatchEvaluator's constructor, lines 48-53
stateManager == config.resumeFromState.set \/ config.saveState

\* The timer is started by initialize when saveStateInterval is set; the
\* configurations with saveState set both onStateSave and saveStateInterval.
autoSaveInterval == config.saveState

\* save, lines 51-69: what the snapshot holds, and where evaluate was
save(by) ==
    [ by |-> by, epc |-> epc,
      results |-> IF currentState.aliased THEN results ELSE currentState.results ]

\* stopAutoSave, lines 117-122
stopAutoSave == FALSE

\* cleanup, lines 127-133: the final save
cleanup ==
    IF stateManager /\ currentState.initialized
    THEN Append(saves, save("cleanup")) ELSE saves

\* update({processedRowIndices, results: this.results, progress}): the
\* results array is stored by reference, so the state reads the live list
\* from then on.
stateUpdate(cs, proc, trk) ==
    IF ~stateManager THEN cs
    ELSE [ cs EXCEPT !.processedRowIndices = proc, !.aliased = TRUE,
                     !.results = << >>, !.progress = getCurrentProgress(trk) ]

StateResults == IF currentState.aliased THEN results ELSE currentState.results

\* ------------------------------------------------------- configurations
RECURSIVE SetToSeq(_)
SetToSeq(S) ==
    IF S = {} THEN << >>
    ELSE LET m == MinOf(S) IN << m >> \o SetToSeq(S \ { m })

\* A BatchEvaluationResult; `failed` says that the error field is present.
RowResult(index, rc, failed, errorMessage, input, evaluatorResults, score) ==
    [ rowIndex |-> index, failed |-> failed, error |-> errorMessage,
      retryCount |-> rc, input |-> input, results |-> evaluatorResults,
      score |-> score ]

\* A row and defaultInput, field by field; "absent" for a field not given.
Fields == { "candidateText", "language" }

PlainRow == [ candidateText |-> "text", language |-> "absent" ]

NoDefaults == [ candidateText |-> "absent", language |-> "absent" ]

\* { ...defaultInput, ...row }, lines 230-233
spread(defaults, row) ==
    [ f \in Fields |-> IF row[f] # "absent" THEN row[f] ELSE defaults[f] ]

inputData == spread(config.defaultInput, config.rowInput)

\* A terminal failure that stores the merged input.
failureInputMerged == inputData

\* line 320: the input of a terminal failure
failureInput == config.rowInput

Evaluators == 1 .. NumEvaluators

\* evaluateWithTimeout, lines 366-375: the call is raced against a timeout
\* only when config.timeout is set; 0 stands for a call without a race
raced == IF config.timeout > 0 THEN now ELSE 0

\* every evaluator called when the attempt starts, whatever the mode
firstCallsAll(ca, rows) ==
    [ r \in Rows |-> IF r \notin rows THEN ca[r] ELSE [ e \in Evaluators |-> raced ] ]

\* runEvaluators, lines 379-392: the evaluators called when the attempt
\* starts, every one in parallel mode and the first in sequential mode
firstCalls(ca, rows) ==
    [ r \in Rows |->
        IF r \notin rows THEN ca[r]
        ELSE [ e \in Evaluators |->
                 IF config.evaluatorExecutionMode = "sequential" /\ e > 1
                 THEN 0 ELSE raced ] ]

\* timeoutPromise, lines 495-499: when the promise made at start rejects
timeoutPromise(start, ms) == start + ms

RECURSIVE Decimal(_)
Decimal(n) ==
    LET digit == << "0", "1", "2", "3", "4", "5", "6", "7", "8", "9" >>
    IN  IF n < 10 THEN << digit[n + 1] >>
        ELSE Append(Decimal(n \div 10), digit[(n % 10) + 1])

\* evaluator.name of the e-th evaluator
EvaluatorName(e) == << "e", "v" >> \o Decimal(e)

\* A timeout message that leaves the budget out.
timeoutMessageNoBudget(e, ms) ==
    << "E", "v", "a", "l", "u", "a", "t", "o", "r", " " >>
    \o EvaluatorName(e)
    \o << " ", "t", "i", "m", "e", "d", " ", "o", "u", "t" >>

\* line 370: `Evaluator ${evaluator.name} timed out after ${timeout}ms`
timeoutMessage(e, ms) ==
    << "E", "v", "a", "l", "u", "a", "t", "o", "r", " " >>
    \o EvaluatorName(e)
    \o << " ", "t", "i", "m", "e", "d", " ", "o", "u", "t", " ",
          "a", "f", "t", "e", "r", " " >>
    \o Decimal(ms) \o << "m", "s" >>

\* What evaluator e returns on the row's attempt a.
Outcome(e, a) == [ evaluatorName |-> e, attempt |-> a ]

\* Promise.all, lines 389-391: the outcomes by position in this.evaluators
promiseAll(outcomes) ==
    [ e \in 1 .. Len(outcomes) |->
        outcomes[CHOOSE k \in DOMAIN outcomes : outcomes[k].evaluatorName = e] ]

\* Outcomes collected as the evaluators finish.
gatherAsFinished(outcomes) == outcomes

\* runEvaluators, lines 380-393: what it returns once every evaluator has
\* returned; the sequential loop pushes each outcome as it arrives
gather(outcomes) ==
    IF config.evaluatorExecutionMode = "sequential" THEN outcomes
    ELSE promiseAll(outcomes)

\* evaluatorResults of the attempt made with retryCount rc: gathered from
\* the evaluators followed one by one, all of them otherwise
evaluatorResults(index, rc) ==
    IF config.evaluators[index].kind = "each" THEN gather(finished[index])
    ELSE [ e \in Evaluators |-> Outcome(e, rc + 1) ]

SuccessResult(index, rc) ==
    RowResult(index, rc, FALSE, << >>, inputData, evaluatorResults(index, rc),
              IF config.calculateCombinedScore THEN "number" ELSE "absent")

FailureResult(index, rc, errorMessage) ==
    RowResult(index, rc, TRUE, errorMessage, failureInput, << >>,
              IF config.calculateCombinedScore THEN "N/A" ELSE "absent")

NoResume == [ set |-> FALSE, processedRowIndices |-> {}, results |-> << >> ]

\* A snapshot left by an earlier run that committed the rows of P.
Snapshot(P) ==
    [ set |-> TRUE, processedRowIndices |-> P,
      results |-> [ k \in 1 .. Cardinality(P) |->
                      RowResult(SetToSeq(P)[k], 0, FALSE, << >>, PlainRow,
                                [ e \in Evaluators |-> Outcome(e, 1) ],
                                "absent") ] ]

ResumeSnapshots ==
    { Snapshot(P) : P \in (SUBSET (0 .. (ResumeSpan - 1))) \ { {} } }

RateLimits ==
    { [ set |-> FALSE, maxRequestsPerMinute |-> 0, maxRequestsPerHour |-> 0 ] }
    \cup { [ set |-> TRUE, maxRequestsPerMinute |-> m, maxRequestsPerHour |-> h ] :
             m \in { 0, RateCap }, h \in { 0, RateCap } }

\* The lines of a streamed file: the csv header and records, the json
\* brackets, commas and projections.
Line(kind, row) == [ kind |-> kind, row |-> row ]

Header == Line("header", -1)

Record(r) == Line("record", r)

OpenBracket == Line("open", -1)

Comma == Line("comma", -1)

CloseBracket == Line("close", -1)

NoFile == [ exists |-> FALSE, content |-> << >> ]

\* The csv file an earlier fresh stream of one row left at the destination.
EarlierCsv == [ exists |-> TRUE, content |-> << Header, Record(-1) >> ]

\* What the configured evaluators do on a row: "any" (they return or throw one
\* of ErrorMessages, attempt by attempt), "ok" (they always return), "throws"
\* (they always throw the message), "each" (as "any", every evaluator
\* followed on its own).
AnyBehaviour == [ kind |-> "any", message |-> << >> ]

EachBehaviour == [ kind |-> "each", message |-> << >> ]

Deterministic ==
    { [ kind |-> "ok", message |-> << >> ] }
    \cup { [ kind |-> "throws", message |-> m ] : m \in ErrorMessages }

ConfigSpace ==
    [ totalRows : 0 .. NumRows,
      evaluators : { [ r \in Rows |-> AnyBehaviour ] },
      evaluatorExecutionMode : { "parallel" },
      calculateCombinedScore : { FALSE },
      defaultInput : { NoDefaults },
      rowInput : { PlainRow },
      concurrency : { Concurrency },
      stopOnError : BOOLEAN,
      streamExport : BOOLEAN,
      format : { "csv" },
      appendToExisting : { FALSE },
      includeHeaders : { TRUE },
      retryOnFailure : { TRUE },
      existing : { NoFile },
      onResult : BOOLEAN,
      maxRetries : 0 .. MaxRetriesCfg,
      retryOnErrors : { << >> },
      retryDelay : { DefaultRetryDelay },
      exponentialBackoff : { "unset" },
      rateLimit : RateLimits,
      onProgress : { "none", "returns", "throws" },
      progressInterval : { DefaultEmitInterval },
      startIndex : 0 .. MaxStartIndex,
      resumeFromState : { NoResume } \cup ResumeSnapshots,
      saveState : BOOLEAN,
      timeout : { 0 } ]

NewTracker ==
    [ processedRows |-> 0, successfulRows |-> 0, failedRows |-> 0,
      lastEmitTime |-> 0 ]

NoState ==
    [ initialized |-> FALSE, processedRowIndices |-> {}, results |-> << >>,
      aliased |-> FALSE, progress |-> getCurrentProgress(NewTracker) ]

\* The state after `new BatchEvaluator(config)`.
InitWith(C) ==
    /\ config \in C
    /\ epc = "constructed"
    /\ chunkLo = 0
    /\ activeCount = 0
    /\ queue = << >>
    /\ requestTimestamps = << >>
    /\ now = Epoch
    /\ ticks = 0
    /\ pc = [ r \in Rows |-> "new" ]
    /\ retryCount = [ r \in Rows |-> 0 ]
    /\ wakeAt = [ r \in Rows |-> 0 ]
    /\ rlNow = [ r \in Rows |-> 0 ]
    /\ results = << >>
    /\ processedRowIndices = {}
    /\ tracker = NewTracker
    /\ currentState = NoState
    /\ sinkRows = << >>
    /\ called = [ r \in Rows |-> 0 ]
    /\ attempts = [ r \in Rows |-> 0 ]
    /\ retryEvents = [ r \in Rows |-> 0 ]
    /\ steps = [ r \in Rows |-> << >> ]
    /\ admittedAt = << >>
    /\ file = config.existing
    /\ csvHeaderWritten = FALSE
    /\ isFirstResult = TRUE
    /\ writePrefix = [ r \in Rows |-> FALSE ]
    /\ requests = [ r \in Rows |-> << >> ]
    /\ runPc = [ c \in Callers |-> "idle" ]
    /\ microtasks = << >>
    /\ gateLog = << >>
    /\ finished = [ r \in Rows |-> << >> ]
    /\ lastError = [ r \in Rows |-> << >> ]
    /\ delivered = << >>
    /\ autoSaveTimer = FALSE
    /\ saves = << >>
    /\ callAt = [ r \in Rows |-> [ e \in Evaluators |-> 0 ] ]
    /\ timedOut = {}

\* ------------------------------------------------------------- processRow
\* run's finally block (activeCount--, processQueue) as processRow ends with
\* newpc; a rejected processRow rejects evaluate's Promise.all at once.
Leave(r, newpc, res, proc, trk, cs, rc, nre, st) ==
    LET pq == processQueue(activeCount - 1, queue)
    IN  /\ results' = res
        /\ processedRowIndices' = proc
        /\ tracker' = trk
        /\ currentState' = cs
        /\ retryCount' = [ retryCount EXCEPT ![r] = rc ]
        /\ retryEvents' = [ retryEvents EXCEPT ![r] = nre ]
        /\ steps' = [ steps EXCEPT ![r] = st ]
        /\ activeCount' = activeCount - 1
        /\ queue' = pq.queue
        /\ pc' = [ x \in Rows |-> IF x = r THEN newpc
                                  ELSE IF x \in pq.next THEN "resumed"
                                  ELSE pc[x] ]
        /\ epc' = IF newpc = "thrown" /\ epc = "running" THEN "raised" ELSE epc
        /\ UNCHANGED wakeAt

\* The row stays in its task and awaits the next promise.
Await(r, newpc, st) ==
    /\ pc' = [ pc EXCEPT ![r] = newpc ]
    /\ steps' = [ steps EXCEPT ![r] = st ]
    /\ UNCHANGED << results, processedRowIndices, tracker, currentState,
                    retryCount, retryEvents, activeCount, queue, epc, wakeAt >>

\* Lines 342-347: how processRow ends after a terminal failure
terminalExit == IF config.stopOnError THEN "thrown" ELSE "done_fail"

\* The catch block, lines 296-349, entered with the lists and counters as
\* the try block left them.
Catch(r, errorMessage, res, proc, trk, st, log) ==
  /\ lastError' = [ lastError EXCEPT ![r] = errorMessage ]
  /\ delivered' =
        IF shouldRetry(errorMessage, retryCount[r], config.maxRetries)
        THEN emit(log, "retry", r, trk)
        ELSE maybeEmit(log, r, recordFailure(trk))
  /\
    IF shouldRetry(errorMessage, retryCount[r], config.maxRetries)
    THEN \E throws \in onProgressThrows(config.onProgress # "none") :
            IF throws
            THEN Leave(r, "thrown", res, proc, trk, currentState,
                       retryCount[r] + 1, retryEvents[r] + 1, st)
            ELSE /\ results' = res
                 /\ processedRowIndices' = proc
                 /\ tracker' = trk
                 /\ retryCount' = [ retryCount EXCEPT ![r] = @ + 1 ]
                 /\ retryEvents' = [ retryEvents EXCEPT ![r] = @ + 1 ]
                 /\ pc' = [ pc EXCEPT ![r] = "retry_sleep" ]
                 /\ wakeAt' = [ wakeAt EXCEPT
                                  ![r] = now + RetryDelay(retryCount[r] + 1) ]
                 /\ steps' = [ steps EXCEPT ![r] = st ]
                 /\ UNCHANGED << currentState, activeCount, queue, epc >>
    ELSE LET res2 == Append(res, FailureResult(r, retryCount[r], errorMessage))
             proc2 == proc \cup { r }
             trk2 == recordFailure(trk)
             due == emitDue(trk2)
             trk3 == emitted(trk2, due)
         IN  \E throws \in onProgressThrows(due /\ config.onProgress # "none") :
                IF throws
                THEN Leave(r, "thrown", res2, proc2, trk2, currentState,
                           retryCount[r], retryEvents[r], st)
                ELSE Leave(r, terminalExit, res2, proc2, trk3,
                           stateUpdate(currentState, proc2, trk3),
                           retryCount[r], retryEvents[r], st)

\* Lines 279-295: store the result, record the success, update the state.
Commit(r, st) ==
    LET res1 == Append(results, SuccessResult(r, retryCount[r]))
        proc1 == processedRowIndices \cup { r }
        trk1 == recordSuccess(tracker)
        due == emitDue(trk1)
        trk2 == emitted(trk1, due)
        st1 == Append(st, "append")
        st2 == IF stateManager THEN st1 \o << "tracker", "state" >>
               ELSE Append(st1, "tracker")
    IN  \E throws \in onProgressThrows(due /\ config.onProgress # "none") :
           IF throws
           THEN \E errorMessage \in ErrorMessages :
                    Catch(r, errorMessage, res1, proc1, trk1, st1,
                          maybeEmit(delivered, r, trk1))
           ELSE /\ Leave(r, "done_ok", res1, proc1, trk2,
                         stateUpdate(currentState, proc1, trk2),
                         retryCount[r], retryEvents[r], st2)
                /\ UNCHANGED lastError
                /\ delivered' = maybeEmit(delivered, r, trk1)

\* Lines 265-281: what follows the evaluators ("evaluated"), the export
\* ("exported") and the callback ("called").
\* A commit section that stores the result before the export and the callback.
afterStageCommitFirst(stage) == "commit"

\* the step that follows a stage of the try block
afterStage(stage) ==
    IF stage = "evaluated" /\ config.streamExport THEN "exporting"
    ELSE IF stage \in { "evaluated", "exported" } /\ config.onResult
         THEN "callback"
         ELSE "commit"

Proceed(r, stage, st) ==
    IF afterStage(stage) = "commit" THEN Commit(r, st)
    ELSE Await(r, afterStage(stage), st) /\ UNCHANGED << lastError, delivered >>

rowFrame == << config, chunkLo, requestTimestamps, now, ticks, rlNow,
               admittedAt, attempts >>

\* runEvaluators on row r: whether it can return, and what it can throw
evaluatorsReturn(r) ==
    \/ config.evaluators[r].kind \in { "any", "ok" }
    \/ /\ config.evaluators[r].kind = "each"
       /\ Len(finished[r]) = NumEvaluators

\* the evaluators of the attempt that have been started and have not returned
running(r) ==
    LET returned == { finished[r][k].evaluatorName : k \in DOMAIN finished[r] }
    IN  IF config.evaluatorExecutionMode = "sequential"
        THEN { e \in Evaluators : e = Len(finished[r]) + 1 }
        ELSE Evaluators \ returned

\* evaluator e returns its outcome for row r
EvaluatorReturns(r, e) ==
    /\ pc[r] = "attempting"
    /\ config.evaluators[r].kind = "each"
    /\ e \in running(r)
    /\ finished' = [ finished EXCEPT
                       ![r] = Append(@, Outcome(e, retryCount[r] + 1)) ]
    /\ UNCHANGED << config, epc, chunkLo, activeCount, queue, requestTimestamps,
                    now, ticks, pc, retryCount, wakeAt, rlNow, results,
                    processedRowIndices, tracker, currentState, sinkRows, called,
                    attempts, retryEvents, steps, admittedAt, sinkVars, gateVars,
                    lastError, delivered, saveVars, timedOut >>
    /\ callAt' = IF config.evaluatorExecutionMode = "sequential"
                    /\ e < NumEvaluators
                 THEN [ callAt EXCEPT ![r][e + 1] = raced ]
                 ELSE callAt

\* evaluator e throws, or its timeout wins the race: Promise.all or the
\* sequential await rejects and runEvaluators with it
EvaluatorThrows(r, e) ==
    /\ pc[r] = "attempting"
    /\ config.evaluators[r].kind = "each"
    /\ e \in running(r)
    /\ \E errorMessage \in ErrorMessages :
          Catch(r, errorMessage, results, processedRowIndices, tracker,
                steps[r], delivered)
    /\ UNCHANGED << rowFrame, sinkRows, called, sinkVars, gateVars, finished,
                    saveVars, fuseVars >>

\* the timeout of evaluator e's call wins the race: the attempt fails with
\* the timeout's message while the call itself goes on
EvaluatorTimesOut(r, e) ==
    /\ pc[r] = "attempting"
    /\ e \in running(r)
    /\ callAt[r][e] > 0
    /\ now >= timeoutPromise(callAt[r][e], config.timeout)
    /\ Catch(r, timeoutMessage(e, config.timeout), results,
             processedRowIndices, tracker, steps[r], delivered)
    /\ timedOut' = timedOut \cup
                      { [ row |-> r, evaluatorName |-> e,
                          attempt |-> retryCount[r] + 1, late |-> FALSE ] }
    /\ UNCHANGED << rowFrame, sinkRows, called, sinkVars, gateVars, finished,
                    saveVars, callAt >>

\* a call whose timeout won returns at last: the race of lines 367-370 has
\* settled, so the value goes nowhere
LateResult(c) ==
    /\ c \in timedOut
    /\ ~c.late
    /\ timedOut' = (timedOut \ { c }) \cup { [ c EXCEPT !.late = TRUE ] }
    /\ UNCHANGED << config, epc, chunkLo, activeCount, queue, requestTimestamps,
                    now, ticks, pc, retryCount, wakeAt, rlNow, results,
                    processedRowIndices, tracker, currentState, sinkRows,
                    called, attempts, retryEvents, steps, admittedAt, finished,
                    lastError, delivered, sinkVars, gateVars, saveVars, callAt >>

evaluatorErrors(r) ==
    CASE config.evaluators[r].kind = "any" -> ErrorMessages
      [] config.evaluators[r].kind = "throws" -> { config.evaluators[r].message }
      [] OTHER -> {}

\* BatchExportConfig.format
ExportFormats == { "csv", "json", "webhook" }

Unsupported == "Unsupported export format"

\* getExporter, lines 200-211, for BatchEvaluator.export
getExporter(format) ==
    IF format \in ExportFormats THEN format ELSE Unsupported

\* StreamingExporter.exportResult up to its first await: exportToCsv decides
\* on the header, exportToJson takes the prefix and clears isFirstResult,
\* exportToWebhook sends the first request.
exportResult(r) ==
    CASE config.format = "csv" ->
            /\ writePrefix' = [ writePrefix EXCEPT
                    ![r] = ~csvHeaderWritten /\ config.includeHeaders ]
            /\ UNCHANGED << file, csvHeaderWritten, isFirstResult, requests >>
      [] config.format = "json" ->
            /\ writePrefix' = [ writePrefix EXCEPT ![r] = ~isFirstResult ]
            /\ isFirstResult' = FALSE
            /\ UNCHANGED << file, csvHeaderWritten, requests >>
      [] config.format = "webhook" ->
            /\ requests' = [ requests EXCEPT ![r] = << "pending" >> ]
            /\ UNCHANGED << file, csvHeaderWritten, isFirstResult, writePrefix >>
      [] OTHER -> UNCHANGED sinkVars

\* what appendFile adds for row r
written(r) ==
    IF config.format = "csv"
    THEN (IF writePrefix[r] THEN << Header >> ELSE << >>) \o << Record(r) >>
    ELSE (IF writePrefix[r] THEN << Comma >> ELSE << >>) \o << Record(r) >>

EvaluatorsSucceed(r) ==
    /\ pc[r] = "attempting"
    /\ evaluatorsReturn(r)
    /\ Proceed(r, "evaluated", steps[r])
    /\ IF afterStage("evaluated") = "exporting"
       THEN exportResult(r) ELSE UNCHANGED sinkVars
    /\ UNCHANGED << rowFrame, sinkRows, called >>
    /\ UNCHANGED gateVars
    /\ UNCHANGED finished
    /\ UNCHANGED saveVars
    /\ UNCHANGED fuseVars

EvaluatorsFail(r) ==
    /\ pc[r] = "attempting"
    /\ \E errorMessage \in evaluatorErrors(r) :
          Catch(r, errorMessage, results, processedRowIndices, tracker,
                steps[r], delivered)
    /\ UNCHANGED << rowFrame, sinkRows, called, sinkVars >>
    /\ UNCHANGED gateVars
    /\ UNCHANGED finished
    /\ UNCHANGED saveVars
    /\ UNCHANGED fuseVars

\* StreamingExporter.exportResult on a csv or json file returns
ExportSucceed(r) ==
    /\ pc[r] = "exporting"
    /\ config.format \in { "csv", "json" }
    /\ sinkRows' = Append(sinkRows, r)
    /\ file' = [ exists |-> TRUE, content |-> file.content \o written(r) ]
    /\ csvHeaderWritten' = (csvHeaderWritten \/ config.format = "csv")
    /\ Proceed(r, "exported", Append(steps[r], "export"))
    /\ UNCHANGED << rowFrame, called, isFirstResult, writePrefix, requests >>
    /\ UNCHANGED gateVars
    /\ UNCHANGED finished
    /\ UNCHANGED saveVars
    /\ UNCHANGED fuseVars

\* StreamingExporter.exportResult, lines 47-64: the switch has no default, so
\* under any other format the call returns without writing
ExportNothing(r) ==
    /\ pc[r] = "exporting"
    /\ config.format \notin ExportFormats
    /\ Proceed(r, "exported", Append(steps[r], "export"))
    /\ UNCHANGED << rowFrame, sinkRows, called, sinkVars >>
    /\ UNCHANGED gateVars
    /\ UNCHANGED finished
    /\ UNCHANGED saveVars
    /\ UNCHANGED fuseVars

\* appendFile rejects
ExportFail(r) ==
    /\ pc[r] = "exporting"
    /\ config.format \in { "csv", "json" }
    /\ \E errorMessage \in ErrorMessages :
          Catch(r, errorMessage, results, processedRowIndices, tracker,
                steps[r], delivered)
    /\ UNCHANGED << rowFrame, sinkRows, called, sinkVars >>
    /\ UNCHANGED gateVars
    /\ UNCHANGED finished
    /\ UNCHANGED saveVars
    /\ UNCHANGED fuseVars

\* exportToWebhook, line 135
retryOnFailureAlways == TRUE

retryOnFailure == config.retryOnFailure

HookPause == 1000

settle(reqs, outcome) == [ reqs EXCEPT ![Len(reqs)] = outcome ]

\* fetch fulfils with an ok response: exportToWebhook returns
FetchSucceed(r) ==
    /\ pc[r] \in { "exporting", "hook_retry" }
    /\ config.format = "webhook"
    /\ requests' = [ requests EXCEPT ![r] = settle(@, "ok") ]
    /\ sinkRows' = Append(sinkRows, r)
    /\ Proceed(r, "exported", Append(steps[r], "export"))
    /\ UNCHANGED << rowFrame, called, file, csvHeaderWritten, isFirstResult,
                    writePrefix >>
    /\ UNCHANGED gateVars
    /\ UNCHANGED finished
    /\ UNCHANGED saveVars
    /\ UNCHANGED fuseVars

\* fetch rejects, is aborted or answers with a non-ok status: the first
\* request is repeated after the pause when retryOnFailure, the failure is
\* logged otherwise; exportToWebhook returns in either case
FetchFail(r) ==
    /\ pc[r] \in { "exporting", "hook_retry" }
    /\ config.format = "webhook"
    /\ requests' = [ requests EXCEPT ![r] = settle(@, "failed") ]
    /\ IF pc[r] = "exporting" /\ retryOnFailure
       THEN /\ pc' = [ pc EXCEPT ![r] = "hook_sleep" ]
            /\ wakeAt' = [ wakeAt EXCEPT ![r] = now + HookPause ]
            /\ UNCHANGED << results, processedRowIndices, tracker, currentState,
                            retryCount, retryEvents, activeCount, queue, epc,
                            steps, lastError, delivered >>
       ELSE Proceed(r, "exported", Append(steps[r], "export"))
    /\ UNCHANGED << rowFrame, sinkRows, called, file, csvHeaderWritten,
                    isFirstResult, writePrefix >>
    /\ UNCHANGED gateVars
    /\ UNCHANGED finished
    /\ UNCHANGED saveVars
    /\ UNCHANGED fuseVars

\* the pause ends and the request is sent again
HookWake(r) ==
    /\ pc[r] = "hook_sleep"
    /\ now >= wakeAt[r]
    /\ pc' = [ pc EXCEPT ![r] = "hook_retry" ]
    /\ wakeAt' = [ wakeAt EXCEPT ![r] = 0 ]
    /\ requests' = [ requests EXCEPT ![r] = Append(@, "pending") ]
    /\ UNCHANGED << config, epc, chunkLo, activeCount, queue, requestTimestamps,
                    now, ticks, retryCount, rlNow, results,
                    processedRowIndices, tracker, currentState, sinkRows, called,
                    attempts, retryEvents, steps, admittedAt, file,
                    csvHeaderWritten, isFirstResult, writePrefix >>
    /\ UNCHANGED gateVars
    /\ UNCHANGED finished
    /\ UNCHANGED saveVars
    /\ UNCHANGED fuseVars
    /\ UNCHANGED << lastError, delivered >>

\* the promise returned by onResult fulfils
CallbackSucceed(r) ==
    /\ pc[r] = "callback"
    /\ called' = [ called EXCEPT ![r] = @ + 1 ]
    /\ Proceed(r, "called", Append(steps[r], "onResult"))
    /\ UNCHANGED << rowFrame, sinkRows, sinkVars >>
    /\ UNCHANGED gateVars
    /\ UNCHANGED finished
    /\ UNCHANGED saveVars
    /\ UNCHANGED fuseVars

\* the promise returned by onResult rejects
CallbackFail(r) ==
    /\ pc[r] = "callback"
    /\ \E errorMessage \in ErrorMessages :
          Catch(r, errorMessage, results, processedRowIndices, tracker,
                steps[r], delivered)
    /\ UNCHANGED << rowFrame, sinkRows, called, sinkVars >>
    /\ UNCHANGED gateVars
    /\ UNCHANGED finished
    /\ UNCHANGED saveVars
    /\ UNCHANGED fuseVars

\* the backoff sleep ends: next turn of the while loop
RetryWake(r) ==
    /\ pc[r] = "retry_sleep"
    /\ now >= wakeAt[r]
    /\ pc' = [ pc EXCEPT ![r] = "attempting" ]
    /\ attempts' = [ attempts EXCEPT ![r] = @ + 1 ]
    /\ steps' = [ steps EXCEPT ![r] = << >> ]
    /\ wakeAt' = [ wakeAt EXCEPT ![r] = 0 ]
    /\ UNCHANGED << config, epc, chunkLo, activeCount, queue, requestTimestamps,
                    now, ticks, retryCount, rlNow, results,
                    processedRowIndices, tracker, currentState, sinkRows, called,
                    retryEvents, admittedAt, sinkVars >>
    /\ UNCHANGED gateVars
    /\ UNCHANGED << lastError, delivered, saveVars, timedOut >>
    /\ callAt' = firstCalls(callAt, { r })
    /\ finished' = [ finished EXCEPT ![r] = << >> ]

\* A caller sleeping in checkRateLimit wakes: the hour check if it slept on
\* the minute window, then the clean-up and the admission.
RateWake(r) ==
    /\ pc[r] \in { "rl_minute", "rl_hour" }
    /\ now >= wakeAt[r]
    /\ LET w == IF pc[r] = "rl_minute"
                THEN hourWait(requestTimestamps, rlNow[r]) ELSE 0
       IN  IF w > 0
           THEN /\ pc' = [ pc EXCEPT ![r] = "rl_hour" ]
                /\ wakeAt' = [ wakeAt EXCEPT ![r] = now + w ]
                /\ UNCHANGED << activeCount, requestTimestamps, attempts,
                                admittedAt, steps, callAt >>
           ELSE /\ pc' = [ pc EXCEPT ![r] = "attempting" ]
                /\ activeCount' = activeCount + 1
                /\ requestTimestamps' =
                       admit(keepLastHour(requestTimestamps, rlNow[r]), now)
                /\ admittedAt' = Append(admittedAt, now)
                /\ attempts' = [ attempts EXCEPT ![r] = @ + 1 ]
                /\ callAt' = firstCalls(callAt, { r })
                /\ steps' = [ steps EXCEPT ![r] = << >> ]
                /\ wakeAt' = [ wakeAt EXCEPT ![r] = 0 ]
    /\ UNCHANGED << config, epc, chunkLo, queue, now, ticks, retryCount, rlNow,
                    results, processedRowIndices, tracker, currentState,
                    sinkRows, called, retryEvents, sinkVars >>
    /\ UNCHANGED gateVars
    /\ UNCHANGED finished
    /\ UNCHANGED saveVars
    /\ UNCHANGED timedOut
    /\ UNCHANGED << lastError, delivered >>

\* ------------------------------------------- direct callers of the gate
\* ConcurrencyManager.run called by code other than processRow, followed
\* promise reaction by promise reaction.  No rate limit is configured.
gateFrame == << config, epc, chunkLo, now, ticks, pc, retryCount, wakeAt, rlNow,
                results, processedRowIndices, tracker, currentState, sinkRows,
                called, attempts, retryEvents, steps, admittedAt, sinkVars,
                finished, lastError, delivered, saveVars, fuseVars >>

Job(job, c) == [ job |-> job, caller |-> c ]

Event(ev, c) == [ ev |-> ev, caller |-> c ]

GateState ==
    [ runPc |-> runPc, queue |-> queue, microtasks |-> microtasks,
      gateLog |-> gateLog ]

\* run, lines 25-27, with waitForSlot, lines 49-57: the caller goes on after
\* one reaction when a slot is free and parks its resolver otherwise
run(c, g) ==
    IF waitForSlot(activeCount)
    THEN [ g EXCEPT !.runPc[c] = "slot_wait",
                    !.microtasks = Append(@, Job("afterSlot", c)),
                    !.gateLog = Append(@, Event("run", c)) ]
    ELSE [ g EXCEPT !.runPc[c] = "parked",
                    !.queue = Append(@, c),
                    !.gateLog = @ \o << Event("run", c), Event("park", c) >> ]

RECURSIVE runEach(_, _)
runEach(cs, g) ==
    IF cs = << >> THEN g ELSE runEach(Tail(cs), run(Head(cs), g))

GateBecomes(g) ==
    /\ runPc' = g.runPc
    /\ queue' = g.queue
    /\ microtasks' = g.microtasks
    /\ gateLog' = g.gateLog

\* A timer or I/O callback calls run for one caller, or for two in a row.
Call(cs) ==
    /\ microtasks = << >>
    /\ \A k \in DOMAIN cs : runPc[cs[k]] = "idle"
    /\ GateBecomes(runEach(cs, GateState))
    /\ UNCHANGED << activeCount, requestTimestamps, gateFrame >>

HeadJob(job) == microtasks # << >> /\ Head(microtasks).job = job

\* The resolver called by processQueue has fulfilled the parked promise; its
\* reaction fulfils the promise of waitForSlot.
SettleWaiter ==
    /\ HeadJob("settle")
    /\ microtasks' = Append(Tail(microtasks),
                            Job("afterSlot", Head(microtasks).caller))
    /\ UNCHANGED << runPc, gateLog, queue, activeCount, requestTimestamps,
                    gateFrame >>

\* run goes on after `await this.waitForSlot()`: checkRateLimit returns at
\* line 63 and run awaits its promise.
AfterSlot ==
    /\ HeadJob("afterSlot")
    /\ LET c == Head(microtasks).caller
       IN  /\ runPc' = [ runPc EXCEPT ![c] = "rate_wait" ]
           /\ microtasks' = Append(Tail(microtasks), Job("afterRate", c))
    /\ UNCHANGED << gateLog, queue, activeCount, requestTimestamps, gateFrame >>

\* Lines 32-39: the caller is admitted and its task starts.
Admit ==
    /\ HeadJob("afterRate")
    /\ LET c == Head(microtasks).caller
       IN  /\ runPc' = [ runPc EXCEPT ![c] = "active" ]
           /\ gateLog' = Append(gateLog, Event("admit", c))
    /\ microtasks' = Tail(microtasks)
    /\ activeCount' = activeCount + 1
    /\ requestTimestamps' = admit(requestTimestamps, now)
    /\ UNCHANGED << queue, gateFrame >>

\* Code that awaited the promise of a finished run calls run again.
ChainedCall ==
    /\ HeadJob("chained")
    /\ GateBecomes(run(Head(microtasks).caller,
                       [ GateState EXCEPT !.microtasks = Tail(@) ]))
    /\ UNCHANGED << activeCount, requestTimestamps, gateFrame >>

\* Lines 38-43: the slot is given back in the finally block, whether the
\* task fulfilled or rejected.
activeAfterFulfilled(ok, active) == IF ok THEN active - 1 ELSE active

activeAfter(ok, active) == active - 1

\* The task of caller c settles: the finally block of run, lines 40-43, then
\* the promise run returned settles as the task did and its reactions may
\* call run for n.
TaskDone(c, chained) ==
    /\ runPc[c] = "active"
    /\ microtasks = << >>
    /\ \A n \in chained : runPc[n] = "idle"
    /\ \E ok \in BOOLEAN :
          LET left == activeAfter(ok, activeCount)
              pq == processQueue(left, queue)
          IN  /\ activeCount' = left
              /\ queue' = pq.queue
              /\ runPc' = [ x \in Callers |->
                              IF x = c THEN IF ok THEN "done" ELSE "raised"
                              ELSE IF x \in pq.next THEN "resumed"
                              ELSE runPc[x] ]
              /\ microtasks' = [ k \in 1 .. Cardinality(pq.next) |->
                                   Job("settle", Head(queue)) ]
                               \o [ k \in 1 .. Cardinality(chained) |->
                                      Job("chained", CHOOSE n \in chained : TRUE) ]
              /\ gateLog' = Append(gateLog,
                                   Event(IF ok THEN "fulfilled" ELSE "rejected", c))
    /\ UNCHANGED << requestTimestamps, gateFrame >>

\* --------------------------------------------------------------- evaluate
batchSize == config.concurrency * 2

Chunk(lo) == { r \in 0 .. (config.totalRows - 1) : lo <= r /\ r < lo + batchSize }

\* A skip test that lets every row of the chunk through.
todoRowsNoSkip(lo, proc) == Chunk(lo)

\* processRow, lines 218-220: the rows of the chunk that are not skipped
todoRows(lo, proc) == Chunk(lo) \ proc

\* Lines 116-122 for the chunk at lo: processRow is called for every row of
\* the chunk in one synchronous block, so every call makes its skip test and
\* its waitForSlot test before any of them goes on; the continuations then
\* run in lockstep: every checkRateLimit, then every admission.
SubmitChunk(lo, proc) ==
    LET todo == todoRows(lo, proc)
        n == Cardinality(todo)
        w1 == minuteWait(requestTimestamps, now)
        w2 == hourWait(requestTimestamps, now)
        stage == IF ~waitForSlot(activeCount) THEN "parked"
                 ELSE IF w1 > 0 THEN "rl_minute"
                 ELSE IF w2 > 0 THEN "rl_hour"
                 ELSE "attempting"
        sleeps == stage \in { "rl_minute", "rl_hour" }
    IN  /\ chunkLo' = lo
        /\ pc' = [ r \in Rows |-> IF r \in todo THEN stage
                                  ELSE IF r \in Chunk(lo) THEN "skipped"
                                  ELSE pc[r] ]
        /\ queue' = IF stage = "parked" THEN queue \o SetToSeq(todo) ELSE queue
        /\ wakeAt' = [ r \in Rows |->
                         IF r \in todo /\ sleeps
                         THEN now + (IF w1 > 0 THEN w1 ELSE w2) ELSE wakeAt[r] ]
        /\ rlNow' = [ r \in Rows |-> IF r \in todo /\ sleeps THEN now ELSE rlNow[r] ]
        /\ activeCount' = IF stage = "attempting" THEN activeCount + n
                          ELSE activeCount
        /\ requestTimestamps' =
               IF stage = "attempting"
               THEN admitEach(n, keepLastHour(requestTimestamps, now), now)
               ELSE requestTimestamps
        /\ admittedAt' = IF stage = "attempting"
                         THEN admittedAt \o [ k \in 1 .. n |-> now ]
                         ELSE admittedAt
        /\ attempts' = [ r \in Rows |->
                           IF r \in todo /\ stage = "attempting"
                           THEN attempts[r] + 1 ELSE attempts[r] ]
        /\ callAt' = IF stage = "attempting" THEN firstCalls(callAt, todo)
                     ELSE callAt

\* StreamingExporter.initialize: an appending csv stream on an existing file
\* takes the header as written, any other csv stream empties the file, a
\* json stream writes the opening bracket.
appending == config.format = "csv" /\ config.appendToExisting /\ file.exists

initialize ==
    IF ~config.streamExport THEN UNCHANGED << file, csvHeaderWritten >>
    ELSE /\ csvHeaderWritten' = appending
         /\ file' = CASE config.format = "json" ->
                            [ exists |-> TRUE, content |-> << OpenBracket >> ]
                       [] config.format = "csv" /\ ~appending /\ file.exists ->
                            [ exists |-> TRUE, content |-> << >> ]
                       [] OTHER -> file

\* whether the writeFile of initialize can reject
initializeFails ==
    IF /\ config.streamExport
       /\ \/ config.format = "json"
          \/ config.format = "csv" /\ ~appending /\ file.exists
    THEN BOOLEAN ELSE { FALSE }

\* evaluate, lines 59-122: the set-up and the first chunk
Evaluate ==
    /\ epc = "constructed"
    /\ LET s == config.startIndex
           rs == config.resumeFromState
           proc0 == IF rs.set THEN rs.processedRowIndices ELSE 0 .. (s - 1)
           res0 == IF rs.set THEN rs.results ELSE << >>
           trk0 == skipRows(NewTracker, s)
           resumed == [ initialized |-> TRUE,
                        processedRowIndices |-> rs.processedRowIndices,
                        results |-> rs.results, aliased |-> FALSE,
                        progress |-> getCurrentProgress(
                            skipRows(NewTracker, Len(rs.results))) ]
           fresh == [ initialized |-> TRUE, processedRowIndices |-> proc0,
                      results |-> << >>, aliased |-> FALSE,
                      progress |-> getCurrentProgress(trk0) ]
       IN  /\ results' = res0
           /\ processedRowIndices' = proc0
           /\ \E ioFails \in initializeFails,
                 throws \in onProgressThrows(config.onProgress # "none") :
               /\ delivered' = IF ioFails THEN delivered
                               ELSE emit(delivered, "started", -1, NewTracker)
               /\ autoSaveTimer' =
                     /\ autoSaveInterval
                     /\ (rs.set \/ ~(ioFails \/ throws))
               /\ UNCHANGED saves
               /\
                 IF ioFails \/ throws
                 THEN /\ epc' = "raised"
                      /\ tracker' = tracker
                      /\ currentState' = IF rs.set THEN resumed ELSE currentState
                      /\ IF ioFails THEN UNCHANGED << file, csvHeaderWritten >>
                         ELSE initialize
                      /\ UNCHANGED << chunkLo, pc, queue, wakeAt, rlNow,
                                      activeCount, requestTimestamps,
                                      admittedAt, attempts, callAt >>
                 ELSE /\ epc' = "running"
                      /\ initialize
                      /\ tracker' = trk0
                      /\ currentState' = IF rs.set THEN resumed
                                         ELSE IF stateManager THEN fresh
                                         ELSE currentState
                      /\ SubmitChunk(s, proc0)
    /\ UNCHANGED << config, now, ticks, retryCount, sinkRows, called, retryEvents,
                    steps, isFirstResult, writePrefix, requests >>
    /\ UNCHANGED gateVars
    /\ UNCHANGED finished
    /\ UNCHANGED lastError
    /\ UNCHANGED timedOut

\* A wait that ends when the first row task of the chunk settles.
ChunkAnySettled ==
    \E r \in Chunk(chunkLo) : pc[r] \in { "skipped", "done_ok", "done_fail" }

\* Promise.all(batchPromises), line 122, has fulfilled
ChunkSettled ==
    \A r \in Chunk(chunkLo) : pc[r] \in { "skipped", "done_ok", "done_fail" }

\* Promise.all of the chunk fulfils and the loop submits the next chunk
NextChunk ==
    /\ epc = "running"
    /\ ChunkSettled
    /\ chunkLo + batchSize < config.totalRows
    /\ SubmitChunk(chunkLo + batchSize, processedRowIndices)
    /\ UNCHANGED << config, epc, now, ticks, retryCount, results,
                    processedRowIndices, tracker, currentState, sinkRows, called,
                    retryEvents, steps, sinkVars >>
    /\ UNCHANGED gateVars
    /\ UNCHANGED finished
    /\ UNCHANGED saveVars
    /\ UNCHANGED timedOut
    /\ UNCHANGED << lastError, delivered >>

\* StreamingExporter.finalize closes the json array
finalize ==
    IF config.streamExport /\ config.format = "json"
    THEN [ exists |-> TRUE, content |-> Append(file.content, CloseBracket) ]
    ELSE file

finalizeFails ==
    IF config.streamExport /\ config.format = "json" THEN BOOLEAN ELSE { FALSE }

\* Lines 125-139: the last chunk is done; tracker.complete() and the return
Finalize ==
    /\ epc = "running"
    /\ ChunkSettled
    /\ chunkLo + batchSize >= config.totalRows
    /\ \E throws \in onProgressThrows(config.onProgress # "none"),
          ioFails \in finalizeFails :
          /\ epc' = IF throws \/ ioFails THEN "raised" ELSE "returned"
          /\ file' = IF throws \/ ioFails THEN file ELSE finalize
          /\ autoSaveTimer' = IF throws \/ ioFails THEN autoSaveTimer
                              ELSE stopAutoSave
          /\ saves' = IF throws \/ ioFails THEN saves ELSE cleanup
    /\ delivered' = emit(delivered, "completed", -1, tracker)
    /\ UNCHANGED << config, chunkLo, activeCount, queue, requestTimestamps, now,
                    ticks, pc, retryCount, wakeAt, rlNow, results,
                    processedRowIndices, tracker, currentState, sinkRows, called,
                    attempts, retryEvents, steps, admittedAt, csvHeaderWritten,
                    isFirstResult, writePrefix, requests >>
    /\ UNCHANGED gateVars
    /\ UNCHANGED finished
    /\ UNCHANGED lastError
    /\ UNCHANGED fuseVars

\* The promise an async onProgress returned for the k-th event settles; emit
\* attached a catch handler to it and nothing else (progress-tracker.ts
\* lines 148-154), so neither outcome reaches the engine.
ProgressSettles(k) ==
    /\ k \in DOMAIN delivered
    /\ ~delivered[k].settled
    /\ delivered' = [ delivered EXCEPT ![k].settled = TRUE ]
    /\ UNCHANGED << config, epc, chunkLo, activeCount, queue, requestTimestamps,
                    now, ticks, pc, retryCount, wakeAt, rlNow, results,
                    processedRowIndices, tracker, currentState, sinkRows,
                    called, attempts, retryEvents, steps, admittedAt, finished,
                    lastError, sinkVars, gateVars, saveVars, fuseVars >>

\* The auto-save timer fires (state-manager.ts lines 107-111).
AutoSave ==
    /\ autoSaveTimer
    /\ Len(saves) < MaxSaves
    /\ saves' = Append(saves, save("timer"))
    /\ UNCHANGED << config, epc, chunkLo, activeCount, queue, requestTimestamps,
                    now, ticks, pc, retryCount, wakeAt, rlNow, results,
                    processedRowIndices, tracker, currentState, sinkRows,
                    called, attempts, retryEvents, steps, admittedAt, finished,
                    lastError, delivered, autoSaveTimer, sinkVars, gateVars,
                    fuseVars >>

\* buildResult, lines 453-490: the counts are taken from the result list by
\* the truthiness of error, which an absent error and an empty string share
truthy(str) == str # << >>

buildResult ==
    LET successfulRows ==
            Cardinality({ k \in DOMAIN results : ~truthy(results[k].error) })
        failedRows ==
            Cardinality({ k \in DOMAIN results : truthy(results[k].error) })
    IN  [ totalRows |-> Len(results),
          successfulRows |-> successfulRows,
          failedRows |-> failedRows,
          results |-> results,
          errorRate |-> IF Len(results) > 0
                        THEN << failedRows, Len(results) >> ELSE << 0, 1 >> ]

\* ----------------------------------------------------------------- resume
\* StateManager.save, lines 51-69, hands the state to onStateSave, which
\* serialises it; the results it reads are the live list once update has
\* stored the reference.
savedState ==
    [ set |-> TRUE,
      processedRowIndices |-> currentState.processedRowIndices,
      results |-> StateResults ]

\* The process ends after a save, and the same input is run again by a new
\* BatchEvaluator whose resumeFromState is the saved state.
ResumeFromSave ==
    /\ ~config.resumeFromState.set
    /\ currentState.initialized
    /\ epc # "constructed"
    /\ config' = [ config EXCEPT !.resumeFromState = savedState ]
    /\ epc' = "constructed"
    /\ chunkLo' = 0
    /\ activeCount' = 0
    /\ queue' = << >>
    /\ requestTimestamps' = << >>
    /\ pc' = [ r \in Rows |-> "new" ]
    /\ retryCount' = [ r \in Rows |-> 0 ]
    /\ wakeAt' = [ r \in Rows |-> 0 ]
    /\ rlNow' = [ r \in Rows |-> 0 ]
    /\ results' = << >>
    /\ processedRowIndices' = {}
    /\ tracker' = NewTracker
    /\ currentState' = NoState
    /\ sinkRows' = << >>
    /\ called' = [ r \in Rows |-> 0 ]
    /\ attempts' = [ r \in Rows |-> 0 ]
    /\ retryEvents' = [ r \in Rows |-> 0 ]
    /\ steps' = [ r \in Rows |-> << >> ]
    /\ admittedAt' = << >>
    /\ csvHeaderWritten' = FALSE
    /\ isFirstResult' = TRUE
    /\ writePrefix' = [ r \in Rows |-> FALSE ]
    /\ requests' = [ r \in Rows |-> << >> ]
    /\ finished' = [ r \in Rows |-> << >> ]
    /\ lastError' = [ r \in Rows |-> << >> ]
    /\ delivered' = << >>
    /\ autoSaveTimer' = FALSE
    /\ saves' = << >>
    /\ callAt' = [ r \in Rows |-> [ e \in Evaluators |-> 0 ] ]
    /\ timedOut' = {}
    /\ UNCHANGED << now, ticks, file >>
    /\ UNCHANGED gateVars

\* ------------------------------------------------------------------- time
Timers ==
    { r \in Rows : pc[r] \in { "rl_minute", "rl_hour", "retry_sleep", "hook_sleep" } }

\* the timeouts of the evaluator calls that are still raced
Fuses ==
    UNION { { timeoutPromise(callAt[r][e], config.timeout) :
                e \in { x \in running(r) : callAt[r][x] > 0 } } :
            r \in { x \in Rows : pc[x] = "attempting" } }

Deadlines == { wakeAt[r] : r \in Timers } \cup Fuses

\* Time passes up to the next timer's deadline.
AdvanceTime ==
    /\ Deadlines # {}
    /\ \A d \in Deadlines : d > now
    /\ now' = MinOf(Deadlines)
    /\ UNCHANGED << config, epc, chunkLo, activeCount, queue, requestTimestamps,
                    ticks, pc, retryCount, wakeAt, rlNow, results,
                    processedRowIndices, tracker, currentState, sinkRows, called,
                    attempts, retryEvents, steps, admittedAt, sinkVars >>
    /\ UNCHANGED gateVars
    /\ UNCHANGED finished
    /\ UNCHANGED saveVars
    /\ UNCHANGED fuseVars
    /\ UNCHANGED << lastError, delivered >>

\* Time passes while evaluators, writes or callbacks are in flight.
Tick ==
    /\ ticks < MaxTicks
    /\ epc = "running"
    /\ \A d \in Deadlines : now + TickStep <= d
    /\ now' = now + TickStep
    /\ ticks' = ticks + 1
    /\ UNCHANGED << config, epc, chunkLo, activeCount, queue, requestTimestamps,
                    pc, retryCount, wakeAt, rlNow, results,
                    processedRowIndices, tracker, currentState, sinkRows, called,
                    attempts, retryEvents, steps, admittedAt, sinkVars >>
    /\ UNCHANGED gateVars
    /\ UNCHANGED finished
    /\ UNCHANGED saveVars
    /\ UNCHANGED fuseVars
    /\ UNCHANGED << lastError, delivered >>

\* ---------------------------------------------------------- specification
\* The configurations explored.  Every family varies some options around
\*   streamExport to a file, an async onResult, maxRetries = MaxRetriesCfg,
\*   an onProgress callback that returns, state saving on, no rate limit,
\*   startIndex 0, no resume snapshot, NumRows - 1 rows.
Plain(c) ==
    /\ c.totalRows = NumRows - 1
    /\ ~c.rateLimit.set
    /\ c.startIndex = 0
    /\ ~c.resumeFromState.set
    /\ c.saveState
    /\ c.onProgress = "returns"

\* the commit pipeline: stopOnError, streamExport, onResult, maxRetries
PipelineConfigs == { c \in ConfigSpace : Plain(c) }

\* where the run starts: startIndex, resumeFromState, state manager
StartConfigs ==
    { c \in ConfigSpace :
        /\ c.totalRows = NumRows - 1 /\ ~c.rateLimit.set
        /\ c.onProgress = "returns"
        /\ ~c.stopOnError /\ c.streamExport /\ ~c.onResult
        /\ c.maxRetries = MaxRetriesCfg }

\* the onProgress callback: absent, or throwing
ProgressConfigs ==
    { c \in ConfigSpace :
        /\ c.totalRows = NumRows - 1 /\ ~c.rateLimit.set
        /\ ~c.resumeFromState.set /\ c.saveState
        /\ c.onProgress # "returns"
        /\ ~c.onResult }

\* the rate limits, on a longer input
RateConfigs ==
    { c \in ConfigSpace :
        /\ c.totalRows = NumRows
        /\ c.rateLimit.set
        /\ c.startIndex = 0 /\ ~c.resumeFromState.set /\ ~c.saveState
        /\ c.onProgress = "none"
        /\ ~c.streamExport /\ ~c.onResult }

\* a first run with deterministic evaluators, whose saved state is resumed
ResumeConfigs ==
    { [ c EXCEPT !.evaluators = e ] :
        c \in { b \in ConfigSpace :
                  /\ b.totalRows = NumRows - 1 /\ ~b.rateLimit.set
                  /\ b.startIndex = 0 /\ ~b.resumeFromState.set /\ b.saveState
                  /\ b.onProgress # "none"
                  /\ ~b.streamExport /\ ~b.onResult
                  /\ b.maxRetries = MaxRetriesCfg },
        e \in { f \in [ Rows -> Deterministic ] :
                  f[NumRows - 1].kind = "ok" } }

Init == InitWith(PipelineConfigs \cup StartConfigs \cup ProgressConfigs)

Next ==
    \/ Evaluate
    \/ NextChunk
    \/ Finalize
    \/ \E r \in Rows : EvaluatorsSucceed(r)
    \/ \E r \in Rows : EvaluatorsFail(r)
    \/ \E r \in Rows : ExportSucceed(r)
    \/ \E r \in Rows : ExportFail(r)
    \/ \E r \in Rows : CallbackSucceed(r)
    \/ \E r \in Rows : CallbackFail(r)
    \/ \E r \in Rows : RetryWake(r)
    \/ AdvanceTime

\* evaluate without rate limits
Spec == Init /\ [][Next]_vars

InitRate == InitWith(RateConfigs)

NextRate ==
    \/ Evaluate
    \/ NextChunk
    \/ Finalize
    \/ \E r \in Rows : EvaluatorsSucceed(r)
    \/ \E r \in Rows : EvaluatorsFail(r)
    \/ \E r \in Rows : RetryWake(r)
    \/ \E r \in Rows : RateWake(r)
    \/ AdvanceTime
    \/ Tick

\* evaluate under rate limits
SpecRate == InitRate /\ [][NextRate]_vars

\* retryConfig: maxRetries, exponentialBackoff, retryOnErrors, on two rows of
\* which the first may also throw one probe message on every attempt
RetryLists == { << >>, << MsgBad >>, << MsgBAD, << "5", "0", "3" >> >> }

RetryConfigs ==
    { [ c EXCEPT !.maxRetries = n, !.exponentialBackoff = x,
                 !.retryOnErrors = l, !.evaluators[0] = b ] :
        c \in { a \in ConfigSpace :
                  /\ a.totalRows = 2 /\ ~a.rateLimit.set
                  /\ a.startIndex = 0 /\ ~a.resumeFromState.set /\ ~a.saveState
                  /\ a.onProgress # "none" /\ ~a.stopOnError
                  /\ ~a.streamExport /\ ~a.onResult
                  /\ a.maxRetries = 0 },
        n \in 0 .. MaxRetriesBackoff,
        x \in { "unset", "true", "false" },
        l \in RetryLists,
        b \in { AnyBehaviour }
               \cup { [ kind |-> "throws", message |-> m ] : m \in ProbeMessages } }

InitRetry == InitWith(RetryConfigs)

NextRetry ==
    \/ Evaluate
    \/ Finalize
    \/ \E r \in Rows : EvaluatorsSucceed(r)
    \/ \E r \in Rows : EvaluatorsFail(r)
    \/ \E r \in Rows : RetryWake(r)
    \/ AdvanceTime

\* the retry loop of processRow under every retryConfig
SpecRetry == InitRetry /\ [][NextRetry]_vars

\* Streaming configurations: evaluators that always return, so that every
\* failure of a row comes from the sink; one or two rows that commit
\* concurrently; a destination that is absent or holds an earlier csv stream.
SinkConfigs ==
    { [ c EXCEPT !.concurrency = SinkConcurrency, !.format = f,
                 !.appendToExisting = a, !.retryOnFailure = h,
                 !.existing = e,
                 !.evaluators = [ r \in Rows |-> [ kind |-> "ok", message |-> << >> ] ] ] :
        c \in { x \in ConfigSpace :
                  /\ x.totalRows \in { 1, 2 } /\ ~x.rateLimit.set
                  /\ x.startIndex = 0 /\ ~x.resumeFromState.set /\ ~x.saveState
                  /\ x.onProgress = "none" /\ ~x.stopOnError
                  /\ x.streamExport /\ ~x.onResult },
        f \in { "csv", "json", "webhook" },
        a \in BOOLEAN, h \in BOOLEAN,
        e \in { NoFile, EarlierCsv } }

InitSink == InitWith(SinkConfigs)

NextSink ==
    \/ Evaluate
    \/ Finalize
    \/ \E r \in Rows : EvaluatorsSucceed(r)
    \/ \E r \in Rows : ExportSucceed(r)
    \/ \E r \in Rows : ExportFail(r)
    \/ \E r \in Rows : FetchSucceed(r)
    \/ \E r \in Rows : FetchFail(r)
    \/ \E r \in Rows : HookWake(r)
    \/ \E r \in Rows : RetryWake(r)
    \/ AdvanceTime

SpecSink == InitSink /\ [][NextSink]_vars

\* Gate configurations: no rows, no rate limit, maxConcurrency one or two.
GateConfigs ==
    { [ c EXCEPT !.concurrency = m ] :
        c \in { x \in ConfigSpace :
                  /\ x.totalRows = 0 /\ ~x.rateLimit.set /\ x.startIndex = 0
                  /\ ~x.resumeFromState.set /\ ~x.saveState
                  /\ x.onProgress = "none" /\ ~x.stopOnError
                  /\ ~x.streamExport /\ ~x.onResult /\ x.maxRetries = 0 },
        m \in 1 .. GateConcurrency }

InitGate == InitWith(GateConfigs)

CallSequences ==
    { << a >> : a \in Callers }
    \cup { cs \in Callers \X Callers : cs[1] # cs[2] }

NextGate ==
    \/ \E cs \in CallSequences : Call(cs)
    \/ SettleWaiter
    \/ AfterSlot
    \/ Admit
    \/ ChainedCall
    \/ \E c \in Callers, n \in Callers :
          TaskDone(c, IF n = c THEN {} ELSE { n })

SpecGate == InitGate /\ [][NextGate]_vars

\* Evaluator configurations: every evaluator followed on its own, in both
\* execution modes, with and without defaultInput fields and a combined score.
Languages == { "absent", "en", "fr" }

EvalConfigs ==
    { [ c EXCEPT !.evaluators = [ r \in Rows |-> EachBehaviour ],
                 !.evaluatorExecutionMode = m,
                 !.calculateCombinedScore = s,
                 !.defaultInput = [ candidateText |-> "absent", language |-> d ],
                 !.rowInput = [ candidateText |-> "text", language |-> l ] ] :
        c \in { x \in ConfigSpace :
                  /\ x.totalRows \in { 1, 2 } /\ ~x.rateLimit.set
                  /\ x.startIndex = 0 /\ ~x.resumeFromState.set /\ ~x.saveState
                  /\ x.onProgress = "none"
                  /\ ~x.streamExport /\ ~x.onResult },
        m \in { "parallel", "sequential" },
        s \in BOOLEAN,
        d \in Languages \ { "fr" },
        l \in Languages \ { "en" } }

InitEval == InitWith(EvalConfigs)

NextEval ==
    \/ Evaluate
    \/ Finalize
    \/ \E r \in Rows, e \in Evaluators : EvaluatorReturns(r, e)
    \/ \E r \in Rows, e \in Evaluators : EvaluatorThrows(r, e)
    \/ \E r \in Rows : EvaluatorsSucceed(r)
    \/ \E r \in Rows : RetryWake(r)
    \/ AdvanceTime

SpecEval == InitEval /\ [][NextEval]_vars

\* onProgress callbacks that return, throw, or return a promise, under an
\* emitInterval equal to or longer than the retry delay, on up to two rows
\* with a startIndex that may reach or pass the end of the input.
ProgressKinds == { "returns", "throws", "async" }

EmitConfigs ==
    { [ c EXCEPT !.onProgress = k, !.progressInterval = i ] :
        c \in { x \in ConfigSpace :
                  /\ x.totalRows <= 2 /\ ~x.rateLimit.set
                  /\ ~x.resumeFromState.set
                  /\ x.onProgress = "returns" /\ ~x.stopOnError
                  /\ ~x.streamExport /\ ~x.onResult
                  /\ x.maxRetries = MaxRetriesCfg },
        k \in ProgressKinds,
        i \in { DefaultEmitInterval, LongEmitInterval } }

InitEmit == InitWith(EmitConfigs)

NextEmit ==
    \/ Evaluate
    \/ Finalize
    \/ \E r \in Rows : EvaluatorsSucceed(r)
    \/ \E r \in Rows : EvaluatorsFail(r)
    \/ \E r \in Rows : RetryWake(r)
    \/ \E k \in 1 .. Len(delivered) : ProgressSettles(k)
    \/ AdvanceTime

\* the events delivered to onProgress over one evaluate
SpecEmit == InitEmit /\ [][NextEmit]_vars

\* Runs with a state manager (a snapshot to resume from, or onStateSave with
\* saveStateInterval), with and without stopOnError, no onProgress callback
\* and no sink, so that evaluate raises only through stopOnError.
StateConfigs ==
    { c \in ConfigSpace :
        /\ c.totalRows = NumRows - 1 /\ ~c.rateLimit.set
        /\ c.startIndex = 0
        /\ (c.resumeFromState.set \/ c.saveState)
        /\ c.onProgress = "none"
        /\ ~c.streamExport /\ ~c.onResult
        /\ c.maxRetries = 0 }

InitState == InitWith(StateConfigs)

NextState ==
    \/ Evaluate
    \/ NextChunk
    \/ Finalize
    \/ \E r \in Rows : EvaluatorsSucceed(r)
    \/ \E r \in Rows : EvaluatorsFail(r)
    \/ AutoSave

\* evaluate with a state manager and its auto-save timer
SpecState == InitState /\ [][NextState]_vars

\* Streaming to a csv file or under a format the exporter does not know.
FormatConfigs ==
    { [ c EXCEPT !.format = f ] :
        c \in { x \in ConfigSpace :
                  /\ x.totalRows = 2 /\ ~x.rateLimit.set
                  /\ x.startIndex = 0 /\ ~x.resumeFromState.set /\ ~x.saveState
                  /\ x.onProgress = "none"
                  /\ x.streamExport /\ ~x.onResult },
        f \in { "csv", "auto" } }

InitFormat == InitWith(FormatConfigs)

NextFormat ==
    \/ Evaluate
    \/ Finalize
    \/ \E r \in Rows : EvaluatorsSucceed(r)
    \/ \E r \in Rows : EvaluatorsFail(r)
    \/ \E r \in Rows : ExportSucceed(r)
    \/ \E r \in Rows : ExportFail(r)
    \/ \E r \in Rows : ExportNothing(r)
    \/ \E r \in Rows : RetryWake(r)
    \/ AdvanceTime

\* streaming under a known and an unknown format
SpecFormat == InitFormat /\ [][NextFormat]_vars

\* A per-evaluation timeout on one or two rows whose evaluators are followed
\* one by one, in both execution modes; the message of the longer timeout
\* matches a default transient pattern, the other does not.
TimeoutConfigs ==
    { [ c EXCEPT !.evaluators = [ r \in Rows |-> EachBehaviour ],
                 !.evaluatorExecutionMode = m,
                 !.timeout = t ] :
        c \in { x \in ConfigSpace :
                  /\ x.totalRows \in { 1, 2 } /\ ~x.rateLimit.set
                  /\ x.startIndex = 0 /\ ~x.resumeFromState.set /\ ~x.saveState
                  /\ x.onProgress = "none" /\ ~x.stopOnError
                  /\ ~x.streamExport /\ ~x.onResult },
        m \in { "parallel", "sequential" },
        t \in { ShortTimeout, LongTimeout } }

InitTimeout == InitWith(TimeoutConfigs)

NextTimeout ==
    \/ Evaluate
    \/ Finalize
    \/ \E r \in Rows, e \in Evaluators : EvaluatorReturns(r, e)
    \/ \E r \in Rows, e \in Evaluators : EvaluatorThrows(r, e)
    \/ \E r \in Rows, e \in Evaluators : EvaluatorTimesOut(r, e)
    \/ \E c \in timedOut : LateResult(c)
    \/ \E r \in Rows : EvaluatorsSucceed(r)
    \/ \E r \in Rows : RetryWake(r)
    \/ AdvanceTime

\* evaluate with a per-evaluation timeout
SpecTimeout == InitTimeout /\ [][NextTimeout]_vars

InitResume == InitWith(ResumeConfigs)

NextResume ==
    \/ Evaluate
    \/ NextChunk
    \/ Finalize
    \/ \E r \in Rows : EvaluatorsSucceed(r)
    \/ \E r \in Rows : EvaluatorsFail(r)
    \/ \E r \in Rows : RetryWake(r)
    \/ AdvanceTime
    \/ ResumeFromSave

\* a run with deterministic evaluators, interrupted and resumed once
SpecResume == InitResume /\ [][NextResume]_vars

\* Runs to completion: direct callers of a gate of one slot (no rows), and
\* evaluate on three rows in chunks of two with every kind of onProgress.
LiveConfigs ==
    { c \in GateConfigs : c.concurrency = 1 }
    \cup { [ c EXCEPT !.concurrency = 1 ] :
             c \in { x \in ConfigSpace :
                       /\ x.totalRows = NumRows - 1 /\ ~x.rateLimit.set
                       /\ x.startIndex = 0 /\ ~x.resumeFromState.set
                       /\ ~x.saveState /\ ~x.streamExport /\ ~x.onResult } }

InitLive == InitWith(LiveConfigs)

\* what the event loop and the settling of tasks, evaluator calls and timers
\* bring about, once run or evaluate has been called
Settling ==
    \/ /\ config.totalRows = 0
       /\ \/ SettleWaiter
          \/ AfterSlot
          \/ Admit
          \/ ChainedCall
          \/ \E c \in Callers, n \in Callers :
                TaskDone(c, IF n = c THEN {} ELSE { n })
    \/ /\ config.totalRows > 0
       /\ \/ NextChunk
          \/ Finalize
          \/ \E r \in Rows : EvaluatorsSucceed(r)
          \/ \E r \in Rows : EvaluatorsFail(r)
          \/ \E r \in Rows : RetryWake(r)
          \/ AdvanceTime

NextLive ==
    \/ config.totalRows = 0 /\ \E cs \in CallSequences : Call(cs)
    \/ config.totalRows > 0 /\ Evaluate
    \/ Settling

\* every promise reaction is run, every task, evaluator call and timer
\* settles
SpecLive == InitLive /\ [][NextLive]_vars /\ WF_vars(Settling)

\* ------------------------------------------------------------- properties
\* Row tasks the gate has admitted and that have not completed.
InFlight == { "attempting", "exporting", "hook_sleep", "hook_retry", "callback",
              "retry_sleep" }

\* Callers that the gate has not admitted.
AtGate == { "new", "parked", "resumed", "rl_minute", "rl_hour" }

InputRows == 0 .. (config.totalRows - 1)

\* evaluate, lines 63-75: the indices in the processed set before any row runs
Preseeded ==
    IF config.resumeFromState.set
    THEN config.resumeFromState.processedRowIndices
    ELSE 0 .. (config.startIndex - 1)

\* The input rows this run neither slices away nor finds in the snapshot.
NotSkipped ==
    { r \in InputRows :
        /\ r >= config.startIndex
        /\ r \notin config.resumeFromState.processedRowIndices }

\* Positions of the RowResults appended by this run (after the snapshot's).
RunPositions == (Len(config.resumeFromState.results) + 1) .. Len(results)

ResultsOf(r) == { k \in DOMAIN results : results[k].rowIndex = r }

SuccessesOf(r) == { k \in RunPositions : results[k].rowIndex = r /\ ~results[k].failed }

ExportsOf(r) == { k \in DOMAIN sinkRows : sinkRows[k] = r }

IsPrefix(s, t) == Len(s) <= Len(t) /\ s = SubSeq(t, 1, Len(s))

\* The commit section of the configuration, lines 265-293.
CommitSequence ==
    (IF config.streamExport THEN << "export" >> ELSE << >>)
    \o (IF config.onResult THEN << "onResult" >> ELSE << >>)
    \o << "append", "tracker" >>
    \o (IF stateManager THEN << "state" >> ELSE << >>)

\* the first chunk has been submitted
Submitted == \E r \in Rows : pc[r] # "new"

\* C1: at every state the number of row tasks admitted by the gate and not
\* yet completed is at most the configured concurrency C.
C1_AtMostCAdmitted ==
    /\ Cardinality({ r \in Rows : pc[r] \in InFlight }) <= config.concurrency
    /\ activeCount <= config.concurrency

\* C2: with maxRequestsPerMinute = M (maxRequestsPerHour = H), the 60-second
\* (3600-second) window that ends at any admission holds at most M (H)
\* admissions.
C2_WindowCaps ==
    LET inWindow(i, window) ==
            { k \in DOMAIN admittedAt :
                /\ admittedAt[k] <= admittedAt[i]
                /\ admittedAt[i] - admittedAt[k] < window }
        M == config.rateLimit.maxRequestsPerMinute
        H == config.rateLimit.maxRequestsPerHour
    IN  config.rateLimit.set =>
            \A i \in DOMAIN admittedAt :
                /\ M # 0 => Cardinality(inWindow(i, MINUTE_WINDOW)) <= M
                /\ H # 0 => Cardinality(inWindow(i, HOUR_WINDOW)) <= H

\* C3: with stopOnError unset evaluate does not raise once rows are being
\* processed and no row task rejects, and when evaluate returns the result list holds exactly one RowResult for
\* every input row that was not skipped.
C3_FailuresContained ==
    ~config.stopOnError =>
        /\ Submitted => epc # "raised"
        /\ \A r \in Rows : pc[r] # "thrown"
        /\ epc = "returned" =>
               \A r \in NotSkipped : Cardinality(ResultsOf(r)) = 1

\* C4: the evaluators of a row run at most maxRetries + 1 times and at least
\* once for a finished row, every RowResult has retryCount <= maxRetries, and
\* a terminal failure with a retryable error has retryCount = maxRetries after
\* maxRetries + 1 attempts and maxRetries retry events.
C4_RetryBudget ==
    /\ \A r \in Rows :
          /\ attempts[r] <= config.maxRetries + 1
          /\ retryCount[r] <= config.maxRetries
          /\ retryEvents[r] <= config.maxRetries
          /\ pc[r] \in { "done_ok", "done_fail", "thrown" } => attempts[r] >= 1
    /\ \A k \in DOMAIN results : results[k].retryCount <= config.maxRetries
    /\ \A k \in RunPositions :
          (results[k].failed /\ isRetryable(results[k].error)) =>
              /\ results[k].retryCount = config.maxRetries
              /\ attempts[results[k].rowIndex] = config.maxRetries + 1
              /\ retryEvents[results[k].rowIndex] = config.maxRetries

\* a row that failed retryably on every attempt has ended as a failure
C4_Exhausted ==
    /\ config.maxRetries = MaxRetriesCfg
    /\ \E k \in RunPositions :
          /\ results[k].failed /\ isRetryable(results[k].error)
          /\ pc[results[k].rowIndex] = "done_fail"
          /\ attempts[results[k].rowIndex] = MaxRetriesCfg + 1

\* C5: the commit steps of an attempt happen in the order export, onResult,
\* append, tracker, state, and the result list never holds more successful
\* results of a row than exports accepted and onResult calls settled for it.
C5_CommitOrder ==
    \A r \in Rows :
        /\ IsPrefix(steps[r], CommitSequence)
        /\ config.streamExport =>
               Cardinality(SuccessesOf(r)) <= Cardinality(ExportsOf(r))
        /\ config.onResult => Cardinality(SuccessesOf(r)) <= called[r]

\* a row committed through every step of the sequence
C5_FullCommit ==
    /\ config.streamExport /\ config.onResult /\ stateManager
    /\ \E r \in Rows :
          /\ pc[r] = "done_ok"
          /\ steps[r] = << "export", "onResult", "append", "tracker", "state" >>
          /\ SuccessesOf(r) # {}

\* C6: with streaming on, every RowResult this run appended to the result
\* list, successful or failed, has been accepted by the sink before.
C6_ListedImpliesExported ==
    config.streamExport =>
        \A k \in RunPositions : ExportsOf(results[k].rowIndex) # {}

\* C7: a row whose export or onResult call fails while it has consumed fewer
\* than maxRetries retries is retried: it does not end there.
C7_CommitFailureRetried ==
    [][ \A r \in Rows :
            (/\ pc[r] \in { "exporting", "callback" }
             /\ retryCount[r] < config.maxRetries)
            => pc'[r] \notin { "done_fail", "thrown" } ]_vars

\* C8, as the specification states it: an index is in the processed set iff
\* the result list holds a RowResult for it, and successfulRows + failedRows
\* = size of the processed set = length of the result list.
C8_AsStated ==
    /\ \A r \in Rows : r \in processedRowIndices <=> ResultsOf(r) # {}
    /\ tracker.successfulRows + tracker.failedRows
           = Cardinality(processedRowIndices)
    /\ Cardinality(processedRowIndices) = Len(results)

\* C8, amended: once the first chunk is submitted, an index is in the
\* processed set iff it was pre-seeded (below startIndex, or in the snapshot's
\* processed set) or the result list holds a RowResult for it, and
\* successfulRows + failedRows = startIndex + the number of RowResults this
\* run appended.
C8_Accounting ==
    Submitted =>
        /\ \A r \in Rows :
               r \in processedRowIndices <=>
                   (r \in Preseeded \/ ResultsOf(r) # {})
        /\ tracker.successfulRows + tracker.failedRows
               = config.startIndex + Cardinality(RunPositions)

\* a run with startIndex > 0 on a snapshot has returned with new results
C8_ResumedRun ==
    /\ config.startIndex > 0
    /\ config.resumeFromState.set
    /\ epc = "returned"
    /\ Cardinality(RunPositions) >= 1

\* C9: no two RowResults of the result list have the same rowIndex, and
\* every rowIndex is the position of an input row.
C9_UniqueRowIndex ==
    /\ \A j, k \in DOMAIN results :
          results[j].rowIndex = results[k].rowIndex => j = k
    /\ \A k \in DOMAIN results : results[k].rowIndex \in InputRows

\* C10: with stopOnError set, a terminal failure makes evaluate raise, and
\* once evaluate has raised no caller still waiting at the gate is admitted.
C10_NoAdmissionAfterStop ==
    [][ config.stopOnError =>
          /\ (\E k \in DOMAIN results' : results'[k].failed) => epc' = "raised"
          /\ epc = "raised" =>
                 \A r \in Rows : pc[r] \in AtGate => pc'[r] \notin InFlight ]_vars

\* C11: a row whose index is in the snapshot's processed set or below
\* startIndex gets no evaluator call, no export, no onResult call, no gate
\* admission and no new RowResult; every admission belongs to a row that is not
\* skipped.
C11_SkippedUntouched ==
    /\ \A r \in Rows \ NotSkipped :
          /\ pc[r] \in { "new", "skipped" }
          /\ attempts[r] = 0
          /\ ExportsOf(r) = {}
          /\ called[r] = 0
          /\ \A k \in RunPositions : results[k].rowIndex # r
    /\ Len(admittedAt) = Cardinality({ r \in NotSkipped : attempts[r] >= 1 })
    /\ activeCount <= Cardinality({ r \in NotSkipped : attempts[r] >= 1 })

\* a resumed run has returned after skipping a row of the snapshot that lies
\* at or above startIndex
C11_SkippedBySnapshot ==
    /\ epc = "returned"
    /\ \E r \in InputRows :
          /\ r >= config.startIndex
          /\ r \in config.resumeFromState.processedRowIndices
          /\ pc[r] = "skipped"
    /\ Cardinality(RunPositions) >= 1

\* The RowResult of row r in an uninterrupted run with deterministic evaluators.
FullRunResult(r) ==
    LET b == config.evaluators[r]
    IN  IF b.kind = "ok" THEN SuccessResult(r, 0)
        ELSE FailureResult(r, IF isRetryable(b.message)
                              THEN config.maxRetries ELSE 0, b.message)

\* C12: when a run resumed from a saved state returns, its result list holds
\* for every input row exactly one RowResult, the one of an uninterrupted run.
C12_ResumeIdempotent ==
    (config.resumeFromState.set /\ epc = "returned") =>
        /\ \A r \in InputRows :
               \E k \in DOMAIN results : results[k] = FullRunResult(r)
        /\ Len(results) = Cardinality(InputRows)

\* C13: the sleep before retry number k of a row is retryDelay * 2^(k-1)
\* unless exponentialBackoff is explicitly false, and retryDelay then.
C13_BackoffByDefault ==
    [][ \A r \in Rows :
            (pc[r] # "retry_sleep" /\ pc'[r] = "retry_sleep") =>
                wakeAt'[r] - now =
                    IF config.exponentialBackoff # "false"
                    THEN config.retryDelay * (2 ^ (retryCount'[r] - 1))
                    ELSE config.retryDelay ]_vars

\* The letters of the messages and patterns, lower case with upper case.
LowerUpper ==
    { << "a", "A" >>, << "b", "B" >>, << "c", "C" >>, << "d", "D" >>,
      << "e", "E" >>, << "f", "F" >>, << "i", "I" >>, << "l", "L" >>,
      << "m", "M" >>, << "n", "N" >>, << "o", "O" >>, << "r", "R" >>,
      << "s", "S" >>, << "t", "T" >>, << "u", "U" >> }

SameIgnoringCase(x, y) ==
    x = y \/ << x, y >> \in LowerUpper \/ << y, x >> \in LowerUpper

\* p occurs in s, letters compared by same
Occurs(s, p, same(_, _)) ==
    \E i \in 0 .. (Len(s) - Len(p)) :
        \A j \in 1 .. Len(p) : same(s[i + j], p[j])

\* The default patterns as the specification lists them.
ListedTransient ==
    { << "E", "C", "O", "N", "N", "R", "E", "S", "E", "T" >>,
      << "E", "T", "I", "M", "E", "D", "O", "U", "T" >>,
      << "E", "N", "O", "T", "F", "O", "U", "N", "D" >>,
      << "r", "a", "t", "e", " ", "l", "i", "m", "i", "t" >>,
      << "4", "2", "9" >>, << "5", "0", "3" >>,
      << "t", "i", "m", "e", "o", "u", "t" >> }

Matches(m) ==
    IF config.retryOnErrors # << >>
    THEN \E p \in Range(config.retryOnErrors) :
             Occurs(m, p, LAMBDA x, y : x = y)
    ELSE \E p \in ListedTransient : Occurs(m, p, SameIgnoringCase)

\* C14: shouldRetry allows a retry exactly when fewer than maxRetries retries
\* are consumed and the message matches (the listed substrings
\* case-sensitively when retryOnErrors is not empty, the default patterns
\* ignoring case otherwise); a row whose failure does not match is attempted
\* once, gets no retry event and ends with retryCount 0 and that message.
C14_RetryPredicate ==
    /\ epc = "constructed" =>
          \A m \in ProbeMessages, n \in 0 .. (MaxRetriesBackoff + 1) :
              shouldRetry(m, n, config.maxRetries)
                  <=> (n < config.maxRetries /\ Matches(m))
    /\ \A r \in Rows :
          (config.evaluators[r].kind = "throws"
           /\ ~Matches(config.evaluators[r].message)) =>
              /\ attempts[r] <= 1 /\ retryCount[r] = 0 /\ retryEvents[r] = 0
              /\ pc[r] # "done_ok"
              /\ pc[r] = "done_fail" =>
                     /\ Cardinality(ResultsOf(r)) = 1
                     /\ \A k \in ResultsOf(r) :
                            results[k] = FailureResult(
                                r, 0, config.evaluators[r].message)
    /\ \A k \in RunPositions :
          (results[k].failed /\ results[k].retryCount = 0) =>
              /\ attempts[results[k].rowIndex] = 1
              /\ retryEvents[results[k].rowIndex] = 0

\* a row that throws BAD is a terminal failure although retryOnErrors lists
\* bad and retries are left
C14_CaseSensitiveMiss ==
    /\ config.retryOnErrors = << MsgBad >>
    /\ config.maxRetries = MaxRetriesBackoff
    /\ config.evaluators[0] = [ kind |-> "throws", message |-> MsgBAD ]
    /\ pc[0] = "done_fail"

RecordsOf(rows) == [ k \in 1 .. Len(rows) |-> Record(rows[k]) ]

\* C15: a csv stream with headers enabled that started fresh holds the header
\* exactly once and before every record, however the exportResult calls of
\* concurrently committing rows interleave; a stream appending to an existing
\* file adds the accepted records and no header.
C15_HeaderOnce ==
    (config.streamExport /\ config.format = "csv" /\ config.includeHeaders
     /\ epc \in { "running", "returned" }) =>
        IF config.appendToExisting /\ config.existing.exists
        THEN file.content = config.existing.content \o RecordsOf(sinkRows)
        ELSE file.content = (IF sinkRows = << >> THEN << >> ELSE << Header >>)
                            \o RecordsOf(sinkRows)

\* the projections of rows with one comma between neighbours
Separated(rows) ==
    [ k \in 1 .. (2 * Len(rows) - 1) |->
        IF k % 2 = 1 THEN Record(rows[(k + 1) \div 2]) ELSE Comma ]

\* C16: after initialize, the exportResult calls (failed writes included) and
\* finalize, a json destination holds the opening bracket, the accepted
\* projections with exactly one comma between neighbours and none before the
\* first, and the closing bracket.
C16_JsonArray ==
    (config.streamExport /\ config.format = "json" /\ epc = "returned") =>
        file.content = << OpenBracket >> \o Separated(sinkRows)
                       \o << CloseBracket >>

\* C17: an exportResult call on a webhook sends at most two requests, the
\* second only after the first failed and only when retryOnFailure is not
\* false, and returns normally: no row is retried, terminally failed or
\* missing from the results because of the webhook.
C17_WebhookContained ==
    (config.streamExport /\ config.format = "webhook") =>
        /\ epc # "raised"
        /\ \A r \in Rows :
              /\ Len(requests[r]) <= 2
              /\ Len(requests[r]) = 2 =>
                     requests[r][1] = "failed" /\ config.retryOnFailure
              /\ retryCount[r] = 0 /\ retryEvents[r] = 0 /\ attempts[r] <= 1
              /\ pc[r] \notin { "done_fail", "thrown", "retry_sleep" }
              /\ pc[r] = "done_ok" =>
                     /\ requests[r][Len(requests[r])] # "pending"
                     /\ Cardinality(ResultsOf(r)) = 1
                     /\ \A k \in ResultsOf(r) : ~results[k].failed
        /\ epc = "returned" => \A r \in InputRows : pc[r] = "done_ok"

\* a row is committed after both of its webhook requests failed
C17_BothRequestsFailed ==
    /\ config.streamExport /\ config.format = "webhook"
    /\ \E r \in Rows :
          requests[r] = << "failed", "failed" >> /\ pc[r] = "done_ok"

HasEvent(ev, c) == \E k \in DOMAIN gateLog : gateLog[k] = Event(ev, c)

EventAt(ev, c) == CHOOSE k \in DOMAIN gateLog : gateLog[k] = Event(ev, c)

\* C18: a caller is admitted only after every caller that was parked before
\* it called run: parked callers are admitted in the order of their parking
\* and no later caller is admitted ahead of a caller that is still parked.
C18_FifoAdmission ==
    \A c \in Callers, w \in Callers :
        (/\ HasEvent("admit", c) /\ HasEvent("park", w)
         /\ EventAt("park", w) < EventAt("run", c)) =>
            HasEvent("admit", w) /\ EventAt("admit", w) < EventAt("admit", c)

\* C19: a result committed without error holds one outcome per evaluator, in
\* declaration order and all of the attempt that succeeded, in parallel and
\* in sequential mode and whatever the order in which the evaluators
\* returned; its input is defaultInput overridden by the fields of the row.
C19_OutcomesInOrder ==
    \A k \in DOMAIN results :
        ~results[k].failed =>
            /\ Len(results[k].results) = NumEvaluators
            /\ \A e \in Evaluators :
                  results[k].results[e]
                      = Outcome(e, results[k].retryCount + 1)
            /\ \A f \in Fields :
                  results[k].input[f]
                      = IF config.rowInput[f] # "absent"
                        THEN config.rowInput[f] ELSE config.defaultInput[f]

\* a row is committed in parallel mode after its last evaluator returned
\* first, with a default language that the row overrides
C19_LastReturnedFirst ==
    /\ config.evaluatorExecutionMode = "parallel"
    /\ config.defaultInput.language = "en" /\ config.rowInput.language = "fr"
    /\ \E r \in Rows :
          /\ pc[r] = "done_ok"
          /\ finished[r][1].evaluatorName = NumEvaluators
          /\ \E k \in ResultsOf(r) : ~results[k].failed

\* C20: a terminally failed row yields a result with no outcomes, the
\* message of its last failed attempt as error, the row as it was read as
\* input, the retries it consumed as retryCount, and the score N/A exactly
\* when calculateCombinedScore is configured.
C20_FailureShape ==
    /\ \A k \in DOMAIN results :
          results[k].failed =>
              /\ results[k].results = << >>
              /\ results[k].error = lastError[results[k].rowIndex]
              /\ results[k].input = config.rowInput
              /\ results[k].retryCount = retryEvents[results[k].rowIndex]
              /\ results[k].retryCount = attempts[results[k].rowIndex] - 1
              /\ results[k].score
                     = IF config.calculateCombinedScore THEN "N/A" ELSE "absent"
    /\ \A r \in Rows :
          (\/ pc[r] = "done_fail"
           \/ pc[r] = "thrown" /\ config.stopOnError
              /\ config.onProgress = "none") =>
              Cardinality({ k \in ResultsOf(r) : results[k].failed }) = 1

\* a row fails after a retry whose first evaluator had returned, with a
\* default language the row does not give and a combined score configured
C20_FailedAfterRetry ==
    /\ config.calculateCombinedScore
    /\ config.defaultInput.language = "en"
    /\ config.rowInput.language = "absent"
    /\ \E r \in Rows :
          /\ pc[r] = "done_fail" /\ retryCount[r] = MaxRetriesCfg
          /\ Len(finished[r]) = 1

\* Events of one type in the log of onProgress calls.
EventsOf(type) == { k \in DOMAIN delivered : delivered[k].type = type }

\* C21: two consecutive progress-type events delivered to onProgress are at
\* least emitInterval ms apart, and every recordRetry call delivers its retry
\* event whatever the interval.
C21_ProgressSpaced ==
    /\ \A i, j \in EventsOf("progress") :
          (i < j /\ \A k \in (i + 1) .. (j - 1) : delivered[k].type # "progress")
              => delivered[j].at - delivered[i].at >= config.progressInterval
    /\ config.onProgress # "none" =>
          \A r \in Rows :
              Cardinality({ k \in EventsOf("retry") : delivered[k].row = r })
                  = retryEvents[r]

\* C22: when evaluate has returned normally, onProgress has received exactly
\* one started event, before every other event, and exactly one completed
\* event, after every other event, and the completed event carries the final
\* counters; this includes runs on an empty input or from a startIndex at or
\* past the end of the input.
C22_StartedAndCompleted ==
    (epc = "returned" /\ config.onProgress # "none") =>
        /\ Len(delivered) >= 2
        /\ EventsOf("started") = { 1 }
        /\ EventsOf("completed") = { Len(delivered) }
        /\ getCurrentProgress(delivered[Len(delivered)])
              = getCurrentProgress(tracker)

\* A run that returned after retry and progress events.
C22_ReturnedAfterEvents ==
    /\ epc = "returned"
    /\ EventsOf("retry") # {}
    /\ EventsOf("progress") # {}
    /\ delivered[Len(delivered)].type = "completed"

\* C23: with startIndex = s on an n-row input (s <= n, no snapshot),
\* evaluators are invoked only for rows s..n-1 and, once evaluate has returned,
\* for each of them; the RowResults carry indices within s..n-1 and, on
\* return, all of them; and once k of those rows have committed the tracker
\* reports processedRows = s + k.
C23_StartIndexRows ==
    (~config.resumeFromState.set /\ config.startIndex <= config.totalRows) =>
        LET todo == config.startIndex .. (config.totalRows - 1)
            committed == { r \in Rows : ResultsOf(r) # {} }
        IN  /\ \A r \in Rows : attempts[r] >= 1 => r \in todo
            /\ committed \subseteq todo
            /\ epc = "returned" =>
                  /\ \A r \in todo : attempts[r] >= 1
                  /\ committed = todo
            /\ (Submitted \/ epc = "returned") =>
                  tracker.processedRows
                      = config.startIndex + Cardinality(committed)

\* C24: while the promise an onProgress call returned is unsettled, the row
\* the event was emitted for has not been recorded in the saved state and has
\* not released its gate slot, and, for the completed event, evaluate has not
\* returned.
C24_PromiseAwaited ==
    \A k \in DOMAIN delivered :
        ~delivered[k].settled =>
            /\ delivered[k].type = "progress" =>
                  /\ pc[delivered[k].row] \notin { "done_ok", "done_fail" }
                  /\ stateManager =>
                        delivered[k].row \notin currentState.processedRowIndices
            /\ delivered[k].type = "completed" => epc # "returned"

\* evaluate has returned, or has raised because of stopOnError
Ended ==
    \/ epc = "returned"
    \/ epc = "raised" /\ config.stopOnError /\ \E r \in Rows : pc[r] = "thrown"

\* C25: with a state manager, once evaluate has ended (normal return, or the
\* raise of stopOnError) the auto-save timer is stopped, exactly one final
\* save has been made, the final save of a returned run holds every committed
\* RowResult, and no timer-driven save was made after the end.
C25_FinalSave ==
    (stateManager /\ Ended) =>
        /\ ~autoSaveTimer
        /\ Cardinality({ k \in DOMAIN saves : saves[k].by = "cleanup" }) = 1
        /\ \A k \in DOMAIN saves :
              /\ (saves[k].by = "cleanup" /\ epc = "returned")
                    => saves[k].results = results
              /\ saves[k].by = "timer"
                    => saves[k].epc \notin { "returned", "raised" }

\* C26: under a streamExport whose format is not csv, json or webhook,
\* evaluate raises at set-up: it never runs or returns, no evaluator is called,
\* and no successful RowResult is in the result list without an export; an
\* export under such a format raises as well.
C26_UnknownFormatRejected ==
    /\ (config.streamExport /\ config.format \notin ExportFormats) =>
          /\ epc \in { "constructed", "raised" }
          /\ \A r \in Rows : attempts[r] = 0
          /\ \A k \in DOMAIN results :
                ~results[k].failed => ExportsOf(results[k].rowIndex) # {}
    /\ getExporter(config.format) = Unsupported
          <=> config.format \notin ExportFormats

\* C27: with timeout = T, no evaluator call is still raced after T ms, and
\* when its timeout wins the attempt fails with the message naming the
\* evaluator and T; the row is then retried exactly when the message is
\* retryable within the budget and fails with that message otherwise; and no
\* RowResult holds an outcome of an attempt other than its own, so none holds
\* the outcome of a call that timed out.
C27_TimeoutFailsAttempt ==
    config.timeout > 0 =>
        /\ \A r \in Rows : \A e \in Evaluators :
              (pc[r] = "attempting" /\ e \in running(r) /\ callAt[r][e] > 0)
                  => now <= callAt[r][e] + config.timeout
        /\ \A c \in timedOut :
              /\ c.attempt <= retryCount[c.row] + 1
              /\ c.attempt = retryCount[c.row] + 1 =>
                    /\ lastError[c.row] = timeoutMessage(c.evaluatorName,
                                                         config.timeout)
                    /\ Includes(lastError[c.row], EvaluatorName(c.evaluatorName))
                    /\ Includes(lastError[c.row], Decimal(config.timeout))
                    /\ pc[c.row] \in { "done_fail", "thrown" }
                    /\ ~shouldRetry(lastError[c.row], retryCount[c.row],
                                    config.maxRetries)
                    /\ \E k \in DOMAIN results :
                          /\ results[k].rowIndex = c.row
                          /\ results[k].failed
                          /\ results[k].error = lastError[c.row]
              /\ c.attempt <= retryCount[c.row] =>
                    shouldRetry(timeoutMessage(c.evaluatorName, config.timeout),
                                c.attempt - 1, config.maxRetries)
              /\ \A k \in DOMAIN results :
                    results[k].rowIndex = c.row =>
                        \A i \in DOMAIN results[k].results :
                            results[k].results[i].attempt # c.attempt
        /\ \A k \in DOMAIN results : \A i \in DOMAIN results[k].results :
              results[k].results[i].attempt = results[k].retryCount + 1

\* a row whose first attempt timed out was retried and committed after the
\* timed-out call had returned
C27_LateResultDropped ==
    \E c \in timedOut :
        /\ c.late
        /\ c.attempt = 1
        /\ pc[c.row] = "done_ok"
        /\ \E k \in DOMAIN results :
              results[k].rowIndex = c.row /\ results[k].retryCount = 1

\* C28: the BatchResult evaluate returns has totalRows = the length of the
\* result list = successfulRows + failedRows, successfulRows counts exactly
\* the RowResults of rows that did not fail, and on an empty input the counts
\* and the error rate are 0 and the list is empty.
C28_BatchResultCounts ==
    epc = "returned" =>
        /\ buildResult.totalRows = Len(buildResult.results)
        /\ buildResult.totalRows
              = buildResult.successfulRows + buildResult.failedRows
        /\ buildResult.successfulRows
              = Cardinality({ k \in DOMAIN results : ~results[k].failed })
        /\ config.totalRows = 0 =>
              /\ buildResult.totalRows = 0
              /\ buildResult.successfulRows = 0
              /\ buildResult.failedRows = 0
              /\ buildResult.errorRate[1] = 0
              /\ buildResult.results = << >>

\* Row tasks inside StreamingExporter.exportResult.
Exporting == { r \in Rows : pc[r] \in { "exporting", "hook_sleep", "hook_retry" } }

\* C29: at every state at most one exportResult call of the streaming sink
\* has started and not yet returned.
C29_OneExportAtATime == Cardinality(Exporting) <= 1

\* The chunk a row at or above startIndex is submitted with.
ChunkOf(r) == (r - config.startIndex) \div (2 * config.concurrency)

\* Row tasks submitted and not finished.
Outstanding == { r \in Rows : pc[r] \in (AtGate \ { "new" }) \cup InFlight }

\* C30: rows are submitted in consecutive chunks of 2 * concurrency rows
\* starting at startIndex, a chunk is submitted whole, a row is submitted only
\* when every row of the earlier chunks has its RowResult in the result list,
\* and at most 2 * concurrency row tasks are outstanding.
C30_ChunkedSubmission ==
    /\ Cardinality(Outstanding) <= 2 * config.concurrency
    /\ \A r \in Rows :
          pc[r] # "new" =>
              /\ r \in InputRows /\ r >= config.startIndex
              /\ \A q \in InputRows :
                    (q >= config.startIndex /\ ChunkOf(q) = ChunkOf(r))
                        => pc[q] # "new"
              /\ \A q \in InputRows :
                    (q >= config.startIndex /\ ChunkOf(q) < ChunkOf(r))
                        => ResultsOf(q) # {}

\* the second chunk is in flight after the first chunk has committed
C30_SecondChunkInFlight ==
    /\ chunkLo = config.startIndex + 2 * config.concurrency
    /\ \E r \in Chunk(chunkLo) : pc[r] \in InFlight
    /\ \A q \in Chunk(config.startIndex) : pc[q] \in { "done_ok", "done_fail" }

CountOf(ev) == Cardinality({ k \in DOMAIN gateLog : gateLog[k].ev = ev })

Settled(c) == runPc[c] \in { "done", "raised" }

\* C31: at the gate, whatever the interleaving of run calls and whether the
\* tasks fulfil or reject, every admission takes one slot and one timestamp
\* and is given back exactly once when the task settles, run rejects exactly
\* when its task rejected, the active count is never negative, and once every
\* task handed to run has settled the active count is 0 and nobody is parked.
C31_ReleasePaired ==
    /\ activeCount >= 0
    /\ activeCount = Cardinality({ c \in Callers : runPc[c] = "active" })
    /\ activeCount = CountOf("admit") - CountOf("fulfilled") - CountOf("rejected")
    /\ Len(requestTimestamps) = CountOf("admit")
    /\ \A c \in Callers :
          /\ runPc[c] = "raised" <=> HasEvent("rejected", c)
          /\ runPc[c] = "done" <=> HasEvent("fulfilled", c)
          /\ Settled(c) => EventAt("admit", c) < Len(gateLog)
    /\ (\A c \in Callers : HasEvent("run", c) => Settled(c)) =>
          activeCount = 0 /\ queue = << >>

\* Every caller has called run, one was parked behind a task that rejected,
\* and all tasks have settled.
C31_AllSettledAfterFailure ==
    /\ \A c \in Callers : Settled(c)
    /\ \E c \in Callers, w \in Callers :
          /\ runPc[c] = "raised" /\ HasEvent("park", w)
          /\ EventAt("park", w) < EventAt("rejected", c)
          /\ EventAt("rejected", c) < EventAt("admit", w)
    /\ activeCount = 0

\* C32: a release that finds callers parked resumes exactly one of them, the
\* head of the queue.
C32_ReleaseResumesHead ==
    [][ (activeCount' = activeCount - 1 /\ queue # << >>) =>
            /\ queue' = Tail(queue)
            /\ runPc'[Head(queue)] = "resumed"
            /\ \A x \in Callers \ { Head(queue) } :
                  runPc'[x] = "resumed" => runPc[x] = "resumed" ]_vars

Returned(r) == { finished[r][k].evaluatorName : k \in DOMAIN finished[r] }

\* C33: in sequential mode an evaluator is called only after the one before
\* it has returned in the same attempt, so none is called after one that
\* failed; in parallel mode every evaluator is called when the attempt
\* starts and the attempt succeeds only after all of them have returned.
C33_ExecutionModes ==
    \A r \in Rows :
        /\ config.evaluatorExecutionMode = "sequential" =>
              /\ \A e \in Evaluators \ { 1 } :
                    callAt[r][e] > 0 =>
                        /\ (e - 1) \in Returned(r)
                        /\ callAt[r][e] >= callAt[r][e - 1]
              /\ \A k \in DOMAIN finished[r] : finished[r][k].evaluatorName = k
        /\ config.evaluatorExecutionMode = "parallel" =>
              (pc[r] = "attempting" =>
                  \A e \in Evaluators :
                      callAt[r][e] > 0 /\ callAt[r][e] = callAt[r][1])
        /\ (pc[r] = "done_ok" \/ SuccessesOf(r) # {}) =>
              Returned(r) = Evaluators

\* in sequential mode the first evaluator of a row's only attempt failed and
\* the second was never called, while another row ran both
C33_SecondNeverCalled ==
    /\ config.evaluatorExecutionMode = "sequential"
    /\ \E r \in Rows, q \in Rows :
          /\ pc[r] = "done_fail" /\ attempts[r] = 1
          /\ finished[r] = << >>
          /\ callAt[r][1] > 0 /\ callAt[r][2] = 0
          /\ pc[q] = "done_ok" /\ callAt[q][2] > 0

Balanced(p) == p.processedRows = p.successfulRows + p.failedRows

RetryRecorded(r) == retryEvents'[r] = retryEvents[r] + 1

\* C34: the events onProgress is called with carry counters that never
\* decrease from one event to the next, every event and every reading of
\* getCurrentProgress has processedRows = successfulRows + failedRows, and
\* recording a retry changes no counter: the retry event carries the counters
\* as they stand, which are those before the attempt unless the attempt's own
\* commit had recorded its success.
C34_CountersMonotone ==
    [][ /\ \A k \in DOMAIN delivered' : Balanced(delivered'[k])
        /\ \A k \in 1 .. (Len(delivered') - 1) :
              /\ delivered'[k].processedRows <= delivered'[k + 1].processedRows
              /\ delivered'[k].successfulRows <= delivered'[k + 1].successfulRows
              /\ delivered'[k].failedRows <= delivered'[k + 1].failedRows
        /\ Balanced(getCurrentProgress(tracker'))
        /\ \A r \in Rows :
              RetryRecorded(r) =>
                  /\ LET ev == delivered'[Len(delivered')]
                     IN  /\ ev.type = "retry" /\ ev.row = r
                         /\ getCurrentProgress(ev) = getCurrentProgress(tracker')
                  /\ getCurrentProgress(tracker')
                        = IF \E k \in DOMAIN steps'[r] : steps'[r][k] = "append"
                          THEN getCurrentProgress(recordSuccess(tracker))
                          ELSE getCurrentProgress(tracker) ]_vars

\* a progress event for a success, then a retry event with the same
\* counters, then an event that counts the row as failed
C34_RetryBetweenProgress ==
    /\ config.onProgress = "returns"
    /\ \E i, j, k \in DOMAIN delivered :
          /\ i < j /\ j < k
          /\ delivered[i].type = "progress" /\ delivered[i].successfulRows = 1
          /\ delivered[j].type = "retry"
          /\ getCurrentProgress(delivered[j]) = getCurrentProgress(delivered[i])
          /\ delivered[k].type = "progress" /\ delivered[k].failedRows = 1

\* C35: with every evaluator call and callback settling, evaluate once called
\* returns or raises, every caller parked at the gate is admitted in the end,
\* also after the active count has passed the maximum, and every row handed
\* to processRow gets a committed RowResult.
C35_Terminates ==
    /\ (epc # "constructed") ~> (epc \in { "returned", "raised" })
    /\ \A c \in Callers : (runPc[c] = "parked") ~> HasEvent("admit", c)
    /\ \A r \in Rows :
          (pc[r] \notin { "new", "skipped" }) ~> (ResultsOf(r) # {})

Admitted == { r \in Rows : pc[r] \notin AtGate \cup { "skipped" } }

\* C36: a row's task holds one slot of the gate from its admission until
\* its RowResult is committed, through every attempt and every backoff
\* sleep, and passes the gate once: one admission timestamp per row however
\* many attempts it makes.
C36_OneSlotPerRow ==
    /\ Len(admittedAt) = Cardinality(Admitted)
    /\ Len(requestTimestamps) = Cardinality(Admitted)
    /\ activeCount = Cardinality({ r \in Admitted : pc[r] \in InFlight })
    /\ \A r \in Admitted :
          /\ pc[r] = "retry_sleep" => pc[r] \in InFlight /\ attempts[r] >= 1
          /\ (\A k \in RunPositions : results[k].rowIndex # r) =>
                pc[r] \in InFlight

\* C37: with streaming enabled the sink accepts each row index at most once
\* in a run, also when onResult fails after the export and the row is
\* retried: no row is written twice.
C37_ExportedOnce ==
    config.streamExport =>
        \A r \in Rows : Cardinality(ExportsOf(r)) <= 1

\* C38: a failing onProgress callback, throwing or rejecting, on any event,
\* leaves the run as it would have been: evaluate does not raise, no row
\* task ends by a throw, no row is retried after its result was stored, no
\* row gets a second RowResult, and the processed set and the counters hold
\* the skipped rows and one entry per committed row.
C38_CallbackContained ==
    (config.onProgress \in { "throws", "async" } /\ ~config.stopOnError) =>
        /\ epc # "raised"
        /\ \A r \in Rows :
              /\ pc[r] # "thrown"
              /\ Cardinality({ k \in RunPositions : results[k].rowIndex = r }) <= 1
              /\ pc[r] = "retry_sleep" =>
                    \A k \in DOMAIN steps[r] : steps[r][k] # "append"
        /\ epc \in { "running", "returned" } =>
              /\ processedRowIndices
                    = Preseeded \cup { results[k].rowIndex : k \in RunPositions }
              /\ tracker.processedRows
                    = Cardinality(Preseeded) + Cardinality(RunPositions)

\* C39: in a fresh run that returns, the successfulRows and failedRows of the
\* BatchResult are those of the completed event: a row the tracker recorded
\* as failed is counted as failed whatever its error message, the empty one
\* included.
C39_ResultMatchesTracker ==
    (/\ epc = "returned" /\ config.startIndex = 0
     /\ ~config.resumeFromState.set) =>
        \A k \in EventsOf("completed") :
            /\ buildResult.successfulRows = delivered[k].successfulRows
            /\ buildResult.failedRows = delivered[k].failedRows

\* C40: every event delivered to onProgress has 0 <= processedRows <=
\* totalRows, and the completed event of a run that returns has
\* processedRows = totalRows, in fresh runs, under any startIndex and in runs
\* resumed from a state.
C40_ProcessedWithinTotal ==
    /\ \A k \in DOMAIN delivered :
          /\ 0 <= delivered[k].processedRows
          /\ delivered[k].processedRows <= config.totalRows
    /\ epc = "returned" =>
          \A k \in EventsOf("completed") :
              delivered[k].processedRows = config.totalRows
====
